---------------------------- MODULE Spec2Model ----------------------------
(***************************************************************************)
(* Query answering pipeline of the transport agent:                        *)
(*   SupervisorAgent.handle_user_query -> PlannerAgent.handle_query ->     *)
(*   DecisionEngine.ask (guardrails, retrieval, planner, tool executor,    *)
(*   composer).                                                            *)
(*                                                                         *)
(* Text is a sequence of one-character strings; None and "" are both the   *)
(* empty sequence (the code only tests them for truthiness).  An optional  *)
(* number is <<>> (None) or <<n>>.  Coordinates are integers in units of   *)
(* 1e-4 degree, distances are metres, similarities are hundredths.         *)
(***************************************************************************)
EXTENDS Integers, Sequences, FiniteSets, TLC

\* ------------------------------------------------------------------------
\* Bounds of the model
\* ------------------------------------------------------------------------
MaxWords == 2

\* ------------------------------------------------------------------------
\* Characters and strings (Python str methods and the re patterns used)
\* ------------------------------------------------------------------------
None == <<>>

Some(v) == <<v>>

IsNone(o) == o = <<>>

Val(o) == o[1]

\* the alphabet of the model, in ASCII order within each class
LettersU ==
  <<"A", "B", "C", "D", "E", "H", "I", "L", "N", "O", "P", "R", "S", "T", "U", "V", "W", "X", "Y", "Z">>

LettersL ==
  <<"a", "b", "c", "d", "e", "h", "i", "l", "n", "o", "p", "r", "s", "t", "u", "v", "w", "x", "y", "z">>

DigitSeq == <<"0", "1", "2", "3", "4", "5", "6", "7", "8", "9">>

Range(f) == {f[i] : i \in DOMAIN f}

IndexOf(f, c) == CHOOSE i \in DOMAIN f : f[i] = c

Digits == Range(DigitSeq)

IsSpace(c) == c = " "

IsDigit(c) == c \in Digits

\* \w of the re module: letters, digits, underscore
IsWordChar(c) == c \in Range(LettersU) \cup Range(LettersL) \cup Digits \cup {"_"}

\* str.lower on one character
LowerC(c) == IF c \in Range(LettersU) THEN LettersL[IndexOf(LettersU, c)] ELSE c

\* str.upper on one character
UpperC(c) == IF c \in Range(LettersL) THEN LettersU[IndexOf(LettersL, c)] ELSE c

\* ord(c), up to monotone renumbering: " " < "?" ... digits < upper < "_" < lower
Ord(c) ==
  IF c \in Digits THEN 10 + IndexOf(DigitSeq, c)
  ELSE IF c \in Range(LettersU) THEN 30 + IndexOf(LettersU, c)
  ELSE IF c = "_" THEN 60
  ELSE IF c \in Range(LettersL) THEN 70 + IndexOf(LettersL, c)
  ELSE IF c = " " THEN 1
  ELSE 25

\* a < b on str (lexicographic)
RECURSIVE StrLess(_, _)
StrLess(a, b) ==
  IF b = <<>> THEN FALSE
  ELSE IF a = <<>> THEN TRUE
  ELSE IF a[1] # b[1] THEN Ord(a[1]) < Ord(b[1])
  ELSE StrLess(Tail(a), Tail(b))

\* sorted(S)[0] for a non-empty set of strings
MinStr(S) == CHOOSE a \in S : \A b \in S \ {a} : StrLess(a, b)

Lower(s) == [i \in 1..Len(s) |-> LowerC(s[i])]

Upper(s) == [i \in 1..Len(s) |-> UpperC(s[i])]

\* str.strip
Strip(s) ==
  LET idx == {i \in 1..Len(s) : ~IsSpace(s[i])}
  IN  IF idx = {} THEN <<>>
      ELSE LET lo == CHOOSE i \in idx : \A j \in idx : i <= j
               hi == CHOOSE i \in idx : \A j \in idx : j <= i
           IN  SubSeq(s, lo, hi)

\* " ".join(s.split()): whitespace runs collapsed, ends trimmed
RECURSIVE Collapse(_)
Collapse(s) ==
  IF s = <<>> THEN <<>>
  ELSE IF IsSpace(s[1])
       THEN IF Len(s) = 1 \/ IsSpace(s[2]) THEN Collapse(Tail(s))
            ELSE <<" ">> \o Collapse(Tail(s))
       ELSE <<s[1]>> \o Collapse(Tail(s))

NormSpace(s) ==
  LET c == Collapse(s)
  IN  IF c # <<>> /\ IsSpace(c[1]) THEN Tail(c) ELSE c

\* k in s
Contains(s, k) ==
  \E i \in 1..(Len(s) - Len(k) + 1) : SubSeq(s, i, i + Len(k) - 1) = k

\* any(k in s for k in ks)
ContainsAny(s, ks) == \E k \in ks : Contains(s, k)

\* \b at position i (between s[i-1] and s[i])
WordBoundary(s, i) ==
  LET before == i > 1 /\ IsWordChar(s[i - 1])
      after  == i <= Len(s) /\ IsWordChar(s[i])
  IN  before # after

\* end index of the greedy digit run that starts at s[i]
RECURSIVE DigitRunEnd(_, _)
DigitRunEnd(s, i) ==
  IF i < Len(s) /\ IsDigit(s[i + 1]) THEN DigitRunEnd(s, i + 1) ELSE i

\* start positions of the matches of \b[Pp]\d+\b
IdMatchStarts(s, prefixes) ==
  {i \in 1..Len(s) :
      /\ s[i] \in prefixes
      /\ WordBoundary(s, i)
      /\ i < Len(s) /\ IsDigit(s[i + 1])
      /\ WordBoundary(s, DigitRunEnd(s, i + 1) + 1)}

IdMatchAt(s, i) == SubSeq(s, i, DigitRunEnd(s, i + 1))

\* re.search(...): the leftmost match, None when there is none
IdSearch(s, prefixes) ==
  LET st == IdMatchStarts(s, prefixes)
  IN  IF st = {} THEN None
      ELSE IdMatchAt(s, CHOOSE i \in st : \A j \in st : i <= j)

\* {m.group(0).upper() for m in re.finditer(...)}
IdFindAllUpper(s, prefixes) ==
  {Upper(IdMatchAt(s, i)) : i \in IdMatchStarts(s, prefixes)}

\* dict.get(k): None when the key is absent
Get(d, k) == IF k \in DOMAIN d THEN d[k] ELSE None

\* {}
EmptyDict == <<>>

\* ------------------------------------------------------------------------
\* Identifiers and query words
\* ------------------------------------------------------------------------
B1 == <<"B", "1">>

B2 == <<"B", "2">>

B3 == <<"B", "3">>

B4 == <<"B", "4">>

B9 == <<"B", "9">>

R1 == <<"R", "1">>

R7 == <<"R", "7">>

S1 == <<"S", "1">>

S2 == <<"S", "2">>

S9 == <<"S", "9">>

\* the words queries are built from
Vocab ==
  { <<"W", "h", "e", "n">>,
    <<"w", "e", "a", "t", "h", "e", "r">>,
    <<"B", "1", "?">>,
    <<"b", "1">>,
    <<"B", "9">>,
    <<"r", "7">>,
    <<"S", "1">>,
    <<"x", "y", "z", "1", "2", "3">> }

RECURSIVE JoinWords(_)
JoinWords(ws) ==
  IF ws = <<>> THEN <<>>
  ELSE IF Len(ws) = 1 THEN ws[1]
  ELSE ws[1] \o <<" ">> \o JoinWords(Tail(ws))

WordSeqs == UNION {[1..n -> Vocab] : n \in 1..MaxWords}

\* the queries a request may carry: empty, whitespace only, padded, or words
Queries ==
  { <<>>, <<" ", " ">> }
    \cup {JoinWords(ws) : ws \in WordSeqs}
    \cup {<<" ">> \o w \o <<" ">> : w \in Vocab}

\* ------------------------------------------------------------------------
\* Fleet and route registry (services/fleet_service.py, data/*.json)
\* ------------------------------------------------------------------------
\* fleet_service.buses
Buses ==
  (B1 :> [route_id |-> R1, lat |-> Some(225700), lon |-> Some(883600), speed_kmph |-> Some(25)])
  @@ (B2 :> [route_id |-> R7, lat |-> Some(225700), lon |-> Some(883600), speed_kmph |-> Some(30)])
  @@ (B3 :> [route_id |-> R1, lat |-> None, lon |-> None, speed_kmph |-> None])
  @@ (B4 :> [route_id |-> R1, lat |-> Some(225600), lon |-> Some(883500), speed_kmph |-> Some(25)])

\* fleet_service.routes; the engine's routes_raw is loaded from the same file
Routes ==
  (R1 :> [stops |-> << [stop_id |-> S1, lat |-> Some(225750), lon |-> Some(883650)],
                       [stop_id |-> S2, lat |-> None, lon |-> None] >>])

\* FleetService.get_bus_status: None for an unknown bus, speed defaults to 20
DefaultStatusSpeed == 20

get_bus_status(bus_id) ==
  IF bus_id \notin DOMAIN Buses THEN None
  ELSE [bus_id |-> bus_id,
        lat |-> Buses[bus_id].lat,
        lon |-> Buses[bus_id].lon,
        route_id |-> Buses[bus_id].route_id,
        speed_kmph |-> IF IsNone(Buses[bus_id].speed_kmph)
                       THEN Some(DefaultStatusSpeed) ELSE Buses[bus_id].speed_kmph]

\* FleetService.get_route
get_route(route_id) == IF route_id \in DOMAIN Routes THEN Routes[route_id] ELSE None

\* ------------------------------------------------------------------------
\* Context documents (_load_context_docs).  A document is kept as the
\* identifiers its text contains and the numbers the pattern
\* [-+]?\d*\.\d+|\d+ finds in it, in text order (1.0 degree = 10000).
\* ------------------------------------------------------------------------
Docs ==
  << [name |-> "Bus B1",   ids |-> {B1, R1}, nums |-> <<10000, 10000, 225700, 883600>>],
     [name |-> "Bus B2",   ids |-> {B2, R7}, nums |-> <<20000, 70000, 225700, 883600>>],
     [name |-> "Route R1", ids |-> {R1, S1, S2}, nums |-> <<10000, 10000, 225750, 883650>>],
     [name |-> "hint rain", ids |-> {}, nums |-> <<>>],
     [name |-> "hint breakdown", ids |-> {}, nums |-> <<>>] >>

\* settings.FAISS_K
FAISS_K == 8

\* settings.RAG_MIN_SIM (0.35)
RAG_MIN_SIM == 35

\* similarities the encoder may yield for the documents (one per document)
ScoreVectors ==
  { <<80, 60, 40, 20, 10>>,
    <<20, 10, 90, 5, 0>>,
    <<30, 20, 10, 5, 0 - 10>> }

\* docs[:k]
FirstK(seq, k) == SubSeq(seq, 1, IF Len(seq) < k THEN Len(seq) ELSE k)

\* np.argsort(-sims): document indexes by decreasing similarity
RECURSIVE ArgSortDesc(_, _)
ArgSortDesc(sims, left) ==
  IF left = {} THEN <<>>
  ELSE LET i == CHOOSE a \in left : \A b \in left : sims[a] > sims[b] \/ (sims[a] = sims[b] /\ a <= b)
       IN  <<i>> \o ArgSortDesc(sims, left \ {i})

\* DecisionEngine.retrieve_with_scores; sims = None when the embeddings are
\* missing or the encoder raises
retrieve_with_scores(sims, k) ==
  IF Len(Docs) = 0 THEN <<>>
  ELSE IF IsNone(sims) THEN [i \in 1..Len(FirstK(Docs, k)) |-> [doc |-> Docs[i], sim |-> 100]]
  ELSE LET top == FirstK(ArgSortDesc(Val(sims), DOMAIN Docs), k)
       IN  [i \in 1..Len(top) |-> [doc |-> Docs[top[i]], sim |-> Val(sims)[top[i]]]]

\* DecisionEngine.retrieve_context without a FAISS index
retrieve_context(k) == FirstK(Docs, k)

\* max(..., default=0.0)
MaxSim(pairs) ==
  IF pairs = <<>> THEN 0
  ELSE LET S == {pairs[i].sim : i \in DOMAIN pairs}
       IN  CHOOSE m \in S : \A n \in S : n <= m

\* ------------------------------------------------------------------------
\* Guardrail helpers
\* ------------------------------------------------------------------------
DomainKeywords ==
  { <<"b", "u", "s">>,
    <<"b", "u", "s", "e", "s">>,
    <<"r", "o", "u", "t", "e">>,
    <<"s", "t", "o", "p">>,
    <<"s", "t", "a", "t", "i", "o", "n">>,
    <<"e", "t", "a">>,
    <<"w", "h", "e", "n">>,
    <<"a", "r", "r", "i", "v", "e">>,
    <<"r", "e", "a", "c", "h">>,
    <<"d", "e", "l", "a", "y">>,
    <<"t", "r", "a", "f", "f", "i", "c">>,
    <<"d", "r", "i", "v", "e", "r">>,
    <<"l", "o", "c", "a", "t", "i", "o", "n">> }

BusPrefix == {"B", "b"}

RoutePrefix == {"R", "r"}

StopPrefix == {"S", "s"}

\* DecisionEngine._is_transport_query
is_transport_query_nokey(query) ==
  \/ IdMatchStarts(query, BusPrefix) # {}
  \/ IdMatchStarts(query, RoutePrefix) # {}
  \/ IdMatchStarts(query, StopPrefix) # {}

is_transport_query(query) ==
  \/ ContainsAny(Lower(query), DomainKeywords)
  \/ IdMatchStarts(query, BusPrefix) # {}
  \/ IdMatchStarts(query, RoutePrefix) # {}
  \/ IdMatchStarts(query, StopPrefix) # {}

\* DecisionEngine._extract_entities (as sets; the code sorts them)
extract_entities(text) ==
  [buses  |-> IdFindAllUpper(text, BusPrefix),
   routes |-> IdFindAllUpper(text, RoutePrefix),
   stops  |-> IdFindAllUpper(text, StopPrefix)]

\* ------------------------------------------------------------------------
\* Answer texts.  A fixed phrase is one element; identifiers and blanks are
\* spliced in character by character, so NormSpace and Contains apply.
\* ------------------------------------------------------------------------
MsgNoInfo == <<"No information available.">>

MsgOutOfDomain ==
  <<"I am a transport assistant and only answer questions about buses, routes and stops. No information is available for this question.">>

MsgUnreliable ==
  <<"I could not find reliable information for this question in my current data.">>

MsgEngineSorry == <<"Sorry, something went wrong when answering your question.">>

MsgPlannerSorry == <<"Sorry, I could not find an answer to your question.">>

MsgSupervisorSorry == <<"Sorry, I could not answer your question.">>

MsgBusNotFound(id) ==
  <<"No information available: I could not find any bus with ID", " ">> \o id
    \o <<" ", "in the current fleet data.">>

MsgRouteNotFound(id) ==
  <<"No information available: I could not find any route with ID", " ">> \o id
    \o <<" ", "in the current fleet data.">>

\* DecisionEngine._validate_referenced_entities: None when nothing is missing
validate_referenced_entities_mut(query) ==
  LET e == extract_entities(query)
      badBuses == e.buses \ DOMAIN Buses
  IN  IF badBuses # {} THEN MsgBusNotFound(MinStr(badBuses)) ELSE None

validate_referenced_entities(query) ==
  LET e == extract_entities(query)
      badBuses == e.buses \ DOMAIN Buses
      badRoutes == e.routes \ DOMAIN Routes
  IN  IF badBuses # {} THEN MsgBusNotFound(MinStr(badBuses))
      ELSE IF badRoutes # {} THEN MsgRouteNotFound(MinStr(badRoutes))
      ELSE None

\* ------------------------------------------------------------------------
\* Deterministic planner
\* ------------------------------------------------------------------------
EtaKeywords ==
  { <<"w", "h", "e", "n">>,
    <<"a", "r", "r", "i", "v", "e">>,
    <<"e", "t", "a">>,
    <<"r", "e", "a", "c", "h">>,
    <<"l", "a", "t", "e">>,
    <<"d", "e", "l", "a", "y">> }

WeatherKeywords ==
  { <<"w", "e", "a", "t", "h", "e", "r">>,
    <<"r", "a", "i", "n">>,
    <<"s", "u", "n", "n", "y">>,
    <<"h", "a", "z", "e">>,
    <<"t", "e", "m", "p", "e", "r", "a", "t", "u", "r", "e">> }

LocationKeywords ==
  { <<"w", "h", "e", "r", "e">>,
    <<"l", "o", "c", "a", "t", "i", "o", "n">>,
    <<"s", "t", "a", "t", "u", "s">> }

Step(tool, params) == [tool |-> tool, params |-> params]

\* DecisionEngine._extract_bus_id
extract_bus_id(text) == IdSearch(text, BusPrefix)

\* DecisionEngine._fallback_plan
fallback_plan_mut(query) ==
  LET q == Lower(query)
      bus_id == IdSearch(query, BusPrefix)
      route_m == IdSearch(query, RoutePrefix)
      route_id == IF route_m # None THEN Upper(route_m) ELSE None
      eta == IF ContainsAny(q, EtaKeywords)
             THEN << Step("weather", EmptyDict),
                     Step("eta", [bus_id |-> bus_id, stop_id |-> S1]) >>
             ELSE <<>>
      wea == IF ContainsAny(q, WeatherKeywords)
             THEN IF bus_id # None
                  THEN << Step("gps", [bus_id |-> bus_id]), Step("weather", EmptyDict) >>
                  ELSE IF route_id # None
                       THEN << Step("weather", [route_id |-> route_id]) >>
                       ELSE << Step("weather", EmptyDict) >>
             ELSE <<>>
      loc == IF ContainsAny(q, LocationKeywords) \/ bus_id # None
             THEN << Step("gps", [bus_id |-> bus_id]) >>
             ELSE <<>>
      plan == eta \o wea \o loc
  IN  plan

\* the position rule applied before the arrival and the weather rule
fallback_plan_mutOrder(query) ==
  LET q == Lower(query)
      bus_id == IdSearch(query, BusPrefix)
      route_m == IdSearch(query, RoutePrefix)
      route_id == IF route_m # None THEN Upper(route_m) ELSE None
      eta == IF ContainsAny(q, EtaKeywords)
             THEN << Step("weather", EmptyDict),
                     Step("eta", [bus_id |-> bus_id, stop_id |-> S1]) >>
             ELSE <<>>
      wea == IF ContainsAny(q, WeatherKeywords)
             THEN IF bus_id # None
                  THEN << Step("gps", [bus_id |-> bus_id]), Step("weather", EmptyDict) >>
                  ELSE IF route_id # None
                       THEN << Step("weather", [route_id |-> route_id]) >>
                       ELSE << Step("weather", EmptyDict) >>
             ELSE <<>>
      loc == IF ContainsAny(q, LocationKeywords) \/ bus_id # None
             THEN << Step("gps", [bus_id |-> bus_id]) >>
             ELSE <<>>
      plan == loc \o eta \o wea
  IN  IF plan = <<>> THEN << Step("none", EmptyDict) >> ELSE plan

fallback_plan(query) ==
  LET q == Lower(query)
      bus_id == IdSearch(query, BusPrefix)
      route_m == IdSearch(query, RoutePrefix)
      route_id == IF route_m # None THEN Upper(route_m) ELSE None
      eta == IF ContainsAny(q, EtaKeywords)
             THEN << Step("weather", EmptyDict),
                     Step("eta", [bus_id |-> bus_id, stop_id |-> S1]) >>
             ELSE <<>>
      wea == IF ContainsAny(q, WeatherKeywords)
             THEN IF bus_id # None
                  THEN << Step("gps", [bus_id |-> bus_id]), Step("weather", EmptyDict) >>
                  ELSE IF route_id # None
                       THEN << Step("weather", [route_id |-> route_id]) >>
                       ELSE << Step("weather", EmptyDict) >>
             ELSE <<>>
      loc == IF ContainsAny(q, LocationKeywords) \/ bus_id # None
             THEN << Step("gps", [bus_id |-> bus_id]) >>
             ELSE <<>>
      plan == eta \o wea \o loc
  IN  IF plan = <<>> THEN << Step("none", EmptyDict) >> ELSE plan

\* ------------------------------------------------------------------------
\* Geometry and ETA arithmetic (tools/eta_calculator.py, _haversine_km)
\* ------------------------------------------------------------------------
Abs(n) == IF n < 0 THEN 0 - n ELSE n

RECURSIVE IsqrtIn(_, _, _)
IsqrtIn(n, lo, hi) ==
  IF lo >= hi THEN lo
  ELSE LET mid == (lo + hi + 1) \div 2
       IN  IF mid * mid <= n THEN IsqrtIn(n, mid, hi) ELSE IsqrtIn(n, lo, mid - 1)

\* floor of the square root, n < 2^31
Isqrt(n) == IsqrtIn(n, 0, 46340)

\* metres per 1e-4 degree of latitude (6371000 * pi / 180 / 10^4), times 100
MetresPerTickLat100 == 1112

\* the same for longitude at the latitude of the fleet (cos 22.57 deg), times 100
MetresPerTickLon100 == 1027

\* above this extent the distance is computed in kilometres to stay in range
MetreRange == 30000

\* eta_calculator.haversine_meters, fixed point, flat-earth form
haversine_meters(lat1, lon1, lat2, lon2) ==
  LET dy == (Abs(lat2 - lat1) \div 100) * MetresPerTickLat100
              + ((Abs(lat2 - lat1) % 100) * MetresPerTickLat100) \div 100
      dx == (Abs(lon2 - lon1) \div 100) * MetresPerTickLon100
              + ((Abs(lon2 - lon1) % 100) * MetresPerTickLon100) \div 100
  IN  IF dx < MetreRange /\ dy < MetreRange
      THEN Isqrt(dx * dx + dy * dy)
      ELSE 1000 * Isqrt((dx \div 1000) * (dx \div 1000) + (dy \div 1000) * (dy \div 1000))

\* int(x / y) for x >= 0: truncation toward zero
TruncDiv(x, y) == IF y > 0 THEN x \div y ELSE 0 - (x \div (0 - y))

\* calculate_eta_seconds measuring the distance along the meridian only
calculate_eta_seconds_mut(lat1, lon1, lat2, lon2, speed_kmph) ==
  LET dist_m == haversine_meters(lat1, lon1, lat2, lon1)
  IN  IF speed_kmph >= 1 THEN TruncDiv(dist_m * 36, speed_kmph * 10)
      ELSE dist_m * 10

\* eta_calculator.calculate_eta_seconds with traffic_multiplier 1.0:
\* speed is clamped to at least 0.1 m/s, i.e. any speed below 0.36 km/h
calculate_eta_seconds(lat1, lon1, lat2, lon2, speed_kmph) ==
  LET dist_m == haversine_meters(lat1, lon1, lat2, lon2)
  IN  IF speed_kmph >= 1 THEN TruncDiv(dist_m * 36, speed_kmph * 10)
      ELSE dist_m * 10

\* ------------------------------------------------------------------------
\* Live position (tools/gps_simulator.py)
\* ------------------------------------------------------------------------
\* positions the fleet microservice (port 8002) may report for a known bus,
\* after driver updates: next to stop S1, far and stationary
LivePositions ==
  { [lat |-> 225755, lon |-> 883650, speed_kmph |-> 40],
    [lat |-> 227700, lon |-> 883600, speed_kmph |-> 0] }

\* random.uniform(-0.0005, 0.0005) on lat and lon, in 1e-4 degree
Jitters == { <<5, 0 - 5>> }

\* get_bus_location: every value the call may return for bus_id
GpsOutcomes(bus_id) ==
  LET status == get_bus_status(bus_id)
  IN  IF status = None THEN {None}
      ELSE { [bus_id |-> bus_id, lat |-> Some(p.lat), lon |-> Some(p.lon),
              speed_kmph |-> Some(p.speed_kmph)] : p \in LivePositions }
           \cup
           { IF IsNone(status.lat) \/ IsNone(status.lon) THEN status
             ELSE [status EXCEPT !.lat = Some(Val(status.lat) + j[1]),
                                 !.lon = Some(Val(status.lon) + j[2])] : j \in Jitters }

\* ------------------------------------------------------------------------
\* Weather provider (tools/weather.py)
\* ------------------------------------------------------------------------
\* get_weather_by_coords: the normalised results, delay 0, 5*60 or 15*60
WeatherOutcomes ==
  { [condition |-> "unknown", expected_delay_sec |-> 0],
    [condition |-> "Rain", expected_delay_sec |-> 300],
    [condition |-> "Thunderstorm", expected_delay_sec |-> 900] }

\* round(float(x), 3) on a coordinate in 1e-4 degree
Round3(t) == ((t + 5) \div 10) * 10

\* f"weather:{key_lat}:{key_lon}"
WeatherKey(lat, lon) == <<"weather", Round3(lat), Round3(lon)>>

\* f"eta:{bus_id}:{stop_id}"
EtaKey(bus_id, stop_id) == <<"eta", bus_id, stop_id>>

\* ------------------------------------------------------------------------
\* Redis wrapper (infra/redis_client.py, class RedisClient).  A stored text
\* is [ok |-> TRUE, value |-> v] when json.loads yields v and [ok |-> FALSE]
\* when json.loads raises.
\* ------------------------------------------------------------------------
\* RedisClient.get: None when not connected or the key is absent
RedisGet(connected, store, key) ==
  IF connected /\ key \in DOMAIN store THEN store[key] ELSE None

\* RedisClient.set(key, value, ttl): stores only when connected
RedisSet(connected, store, key, value) ==
  IF connected THEN (key :> value) @@ store ELSE store

\* redis_client.setex as called by DecisionEngine.ask: RedisClient defines
\* no setex, the AttributeError is swallowed and nothing is stored
RedisClientSetex(connected, store, key, value) == store

\* json.loads succeeded on a cached text
Decodes(cached) == cached # None /\ cached.ok

\* ------------------------------------------------------------------------
\* Tool executor: one operator per tool branch of DecisionEngine.ask.
\* Each yields the step result, the new last_bus_loc / last_weather and the
\* collaborators it called.
\* ------------------------------------------------------------------------
\* float(x) accepts a number <<n>>, not a string of several characters
IsNumber(o) == Len(o) = 1

Or(a, b) == IF a # None THEN a ELSE b

FirstIndex(S) == CHOOSE i \in S : \A j \in S : i <= j

ErrNoGps(bus_id) == <<"No GPS data for bus", " ">> \o bus_id

ErrNoBusId == <<"No bus_id provided for gps tool">>

ErrNoCoords == <<"No coordinates available for weather tool">>

ErrFloat == <<"could not convert string to float">>

\* tool_name == "gps"
GpsStep(params, user_query, loc, live) ==
  LET bus_id == Or(Get(params, "bus_id"), extract_bus_id(user_query))
  IN  IF bus_id # None
      THEN LET r == IF live # None
                    THEN [bus_id |-> live.bus_id, lat |-> live.lat, lon |-> live.lon,
                          speed_kmph |-> live.speed_kmph]
                    ELSE [error |-> ErrNoGps(bus_id)]
           IN  [result |-> r, loc |-> r, calls |-> {"gps"}]
      ELSE [result |-> [error |-> ErrNoBusId], loc |-> loc, calls |-> {}]

\* tool_name == "weather"; cached is what redis_client.get(cache_key) gave
WeatherCoords(params, loc) ==
  LET lat0 == Get(params, "lat")
      lon0 == Get(params, "lon")
      useLoc == (lat0 = None \/ lon0 = None) /\ loc # None
  IN  [lat |-> IF useLoc THEN Get(loc, "lat") ELSE lat0,
       lon |-> IF useLoc THEN Get(loc, "lon") ELSE lon0]

WeatherStep(params, loc, lastw, connected, store, wx) ==
  LET c == WeatherCoords(params, loc)
  IN  IF c.lat # None /\ c.lon # None
      THEN IF ~(IsNumber(c.lat) /\ IsNumber(c.lon))
           THEN [result |-> [error |-> ErrFloat], lastw |-> lastw, calls |-> {},
                 hit |-> FALSE, store |-> store]
           ELSE LET key == WeatherKey(Val(c.lat), Val(c.lon))
                    cached == RedisGet(connected, store, key)
                IN  IF Decodes(cached)
                    THEN [result |-> cached.value, lastw |-> cached.value,
                          calls |-> {"weather_cache"}, hit |-> TRUE, store |-> store]
                    ELSE [result |-> wx, lastw |-> wx,
                          calls |-> {"weather_cache", "weather"}, hit |-> FALSE,
                          store |-> RedisClientSetex(connected, store, key,
                                                     [ok |-> TRUE, value |-> wx])]
      ELSE [result |-> [error |-> ErrNoCoords], lastw |-> lastw, calls |-> {},
            hit |-> FALSE, store |-> store]

\* DecisionEngine._find_stop_coords over routes_raw (file order of the routes)
RouteOrder == <<R1>>

AllStops ==
  LET RECURSIVE Cat(_)
      Cat(i) == IF i > Len(RouteOrder) THEN <<>>
                ELSE Routes[RouteOrder[i]].stops \o Cat(i + 1)
  IN  Cat(1)

find_stop_coords(stop_id) ==
  LET ok == {i \in DOMAIN AllStops :
               /\ AllStops[i].stop_id = stop_id
               /\ AllStops[i].lat # None /\ AllStops[i].lon # None}
  IN  IF stop_id = None \/ ok = {} THEN None
      ELSE [lat |-> AllStops[FirstIndex(ok)].lat, lon |-> AllStops[FirstIndex(ok)].lon]

\* stop_id in d, on the identifiers of the document
DocMentions(d, stop_id) == \E id \in d.ids : Contains(id, stop_id)

\* 1200 s, written 20 * 60 in the code
FallbackEtaSec == 1200

\* ETA when the bus is closer than 100 m, written 2 * 60
ImminentEtaSec == 120

\* dist_km < 0.1, in metres
ImminentMetres == 100

\* default speed of the eta step when no position step recorded one
DefaultEtaSpeed == 25

\* stop coordinates of the eta step: registry via the bus's route, then the
\* raw route table, then two numbers of a context document
StatusRouteId(status) == IF status # None THEN status.route_id ELSE None

\* lines 426-429: the route of the bus in the registry
BusRouteId(bus_id) == IF bus_id # None THEN StatusRouteId(get_bus_status(bus_id)) ELSE None

NoCoords == [lat |-> None, lon |-> None]

FirstStop(stops, hits) ==
  IF hits = {} THEN NoCoords
  ELSE [lat |-> stops[FirstIndex(hits)].lat, lon |-> stops[FirstIndex(hits)].lon]

\* 1) lines 431-438: the stop on the route of the bus
RouteStop(route, stop_id) ==
  IF route = None THEN NoCoords
  ELSE FirstStop(route.stops, {i \in DOMAIN route.stops : route.stops[i].stop_id = stop_id})

FirstDoc(context, docs) ==
  IF docs = {} THEN None
  ELSE [lat |-> Some(context[FirstIndex(docs)].nums[1]),
        lon |-> Some(context[FirstIndex(docs)].nums[2])]

\* 3) lines 449-454: the first two numbers of the first document naming the stop
ContextStop(context, stop_id) ==
  FirstDoc(context, {i \in DOMAIN context :
                       DocMentions(context[i], stop_id) /\ Len(context[i].nums) >= 2})

StopFound(raises, c, path) == [raises |-> raises, lat |-> c.lat, lon |-> c.lon, path |-> path]

\* lines 436-454: the first of the three paths that gives a latitude
StopPaths(raises, viaRoute, raw, doc) ==
  IF viaRoute.lat # None THEN StopFound(raises, viaRoute, "registry")
  ELSE IF raw # None THEN StopFound(raises, raw, "raw")
  ELSE IF doc # None THEN StopFound(raises, doc, "context")
  ELSE StopFound(raises, viaRoute, "none")

\* route.get raises when the route of the bus is not in the registry
StopCoordsOn(route_id, stop_id, context) ==
  StopPaths(route_id # None /\ get_route(route_id) = None,
            RouteStop(IF route_id # None THEN get_route(route_id) ELSE None, stop_id),
            find_stop_coords(stop_id),
            ContextStop(context, stop_id))

\* stop coordinates of the eta step, lines 422-454
StopCoords(bus_id, stop_id, context) == StopCoordsOn(BusRouteId(bus_id), stop_id, context)

\* bus coordinates of the eta step: last known position, else a fresh lookup
BusCoords(bus_id, loc, live) ==
  LET lat0 == IF loc # None THEN Get(loc, "lat") ELSE None
      lon0 == IF loc # None THEN Get(loc, "lon") ELSE None
      again == (lat0 = None \/ lon0 = None) /\ bus_id # None
  IN  [lat |-> IF again /\ live # None THEN live.lat ELSE lat0,
       lon |-> IF again /\ live # None THEN live.lon ELSE lon0,
       again |-> again]

\* weather_delay of the eta step
WeatherDelay(lastw) ==
  IF lastw = None THEN 0
  ELSE IF "expected_delay_sec" \in DOMAIN lastw /\ lastw.expected_delay_sec # 0
       THEN lastw.expected_delay_sec
  ELSE IF "delay" \in DOMAIN lastw /\ lastw.delay # 0 THEN lastw.delay
  ELSE 0

\* the result of a resolved eta computation
EtaResult_mut(bus, stop, stop_id, loc, lastw) ==
  LET dist_m == haversine_meters(Val(bus.lat), Val(bus.lon), Val(stop.lat), Val(stop.lon))
      speed0 == IF loc # None THEN Get(loc, "speed_kmph") ELSE None
      speed == IF speed0 # None THEN Val(speed0) ELSE DefaultEtaSpeed
      eta_sec == IF dist_m < ImminentMetres THEN ImminentEtaSec
                 ELSE calculate_eta_seconds(Val(bus.lat), Val(bus.lon),
                                            Val(stop.lat), Val(stop.lon), speed)
  IN  [eta_sec |-> eta_sec - WeatherDelay(lastw),
       distance_km |-> (dist_m + 5) \div 10,
       speed_kmph |-> speed,
       stop_id |-> stop_id,
       stop |-> [lat |-> stop.lat, lon |-> stop.lon]]

EtaResult(bus, stop, stop_id, loc, lastw) ==
  LET dist_m == haversine_meters(Val(bus.lat), Val(bus.lon), Val(stop.lat), Val(stop.lon))
      speed0 == IF loc # None THEN Get(loc, "speed_kmph") ELSE None
      speed == IF speed0 # None THEN Val(speed0) ELSE DefaultEtaSpeed
      eta_sec == IF dist_m < ImminentMetres THEN ImminentEtaSec
                 ELSE calculate_eta_seconds(Val(bus.lat), Val(bus.lon),
                                            Val(stop.lat), Val(stop.lon), speed)
  IN  [eta_sec |-> eta_sec + WeatherDelay(lastw),
       distance_km |-> (dist_m + 5) \div 10,
       speed_kmph |-> speed,
       stop_id |-> stop_id,
       stop |-> [lat |-> stop.lat, lon |-> stop.lon]]

\* the result of the eta step when an endpoint is missing
EtaUnresolved_mut(stop_id) == [error |-> <<"No coordinates available for eta tool">>]

EtaUnresolved(stop_id) == [eta_sec |-> FallbackEtaSec, stop_id |-> stop_id, fallback |-> TRUE]

\* the except branch of the step for tool_name == "eta"
EtaOnException == [eta_sec |-> FallbackEtaSec, fallback |-> TRUE]

EtaBusId(params, user_query) == Or(Get(params, "bus_id"), extract_bus_id(user_query))

EtaStopId(params) == Or(Get(params, "stop_id"), Or(Get(params, "stop"), S1))

EtaDiag(how, sc, bc, bus_id) ==
  [how |-> how, path |-> sc.path,
   stop |-> sc.lat # None /\ sc.lon # None,
   bus |-> bus_id # None /\ bc.lat # None /\ bc.lon # None]

EtaCalls(cached_key, bc) ==
  {"eta"} \cup (IF cached_key THEN {"eta_cache"} ELSE {}) \cup (IF bc.again THEN {"gps"} ELSE {})

\* lines 412-512 on the cached text, the stop and the bus coordinates
EtaStepOn(bus_id, stop_id, cached, sc, bc, loc, lastw, connected, store) ==
  IF Decodes(cached)
  THEN [result |-> cached.value, calls |-> {"eta", "eta_cache"}, hit |-> TRUE,
        store |-> store, diag |-> [how |-> "cache"]]
  ELSE IF sc.raises
  THEN [result |-> EtaOnException, calls |-> {"eta"} \cup (IF bus_id # None THEN {"eta_cache"} ELSE {}),
        hit |-> FALSE, store |-> store, diag |-> [how |-> "exception"]]
  ELSE IF ~(bus_id # None /\ bc.lat # None /\ bc.lon # None /\ sc.lat # None /\ sc.lon # None)
  THEN [result |-> EtaUnresolved(stop_id), calls |-> EtaCalls(bus_id # None, bc),
        hit |-> FALSE, store |-> store, diag |-> EtaDiag("unresolved", sc, bc, bus_id)]
  ELSE [result |-> EtaResult(bc, sc, stop_id, loc, lastw),
        calls |-> EtaCalls(bus_id # None, bc),
        hit |-> FALSE,
        store |-> RedisClientSetex(connected, store, EtaKey(bus_id, stop_id),
                                   [ok |-> TRUE,
                                    value |-> EtaResult(bc, sc, stop_id, loc, lastw)]),
        diag |-> EtaDiag("computed", sc, bc, bus_id)]

\* lines 406-420: the cache is consulted when bus_id and stop_id are set
EtaStepFor(bus_id, stop_id, context, loc, lastw, connected, store, live) ==
  EtaStepOn(bus_id, stop_id,
            IF bus_id # None /\ stop_id # None
            THEN RedisGet(connected, store, EtaKey(bus_id, stop_id)) ELSE None,
            StopCoords(bus_id, stop_id, context),
            BusCoords(bus_id, loc, live),
            loc, lastw, connected, store)

\* tool_name == "eta"
EtaStep(params, user_query, context, loc, lastw, connected, store, live) ==
  EtaStepFor(EtaBusId(params, user_query), EtaStopId(params), context, loc, lastw,
             connected, store, live)

\* ------------------------------------------------------------------------
\* Generative planner and composer (Groq client), as seen by ask
\* ------------------------------------------------------------------------
\* a JSON value that is not a str, given as the tool of a step
NonStrTool == "{object}"

IsStrTool(t) == t # NonStrTool

\* a step that is not a JSON object
NonDictStep == [nondict |-> "eta"]

IsDictStep(step) == "nondict" \notin DOMAIN step

\* a coordinate given as a string float() rejects
BadNumber == <<"a", "b", "c">>

\* the values of "plan" a decoded planner response may carry
LLMPlans ==
  { <<>>,
    << Step("gps", [bus_id |-> B1]), Step("weather", EmptyDict),
       Step("eta", [bus_id |-> B1, stop_id |-> S1]) >>,
    << Step("eta", [bus_id |-> B2, stop_id |-> S1]) >>,
    << Step("eta", [bus_id |-> B1, stop_id |-> S2]) >>,
    << Step("eta", [bus_id |-> B4, stop |-> S9]), Step("gps", EmptyDict) >>,
    << Step("eta", [bus_id |-> B3]) >>,
    << Step("weather", [lat |-> BadNumber, lon |-> Some(883600)]),
       Step("weather", [lat |-> Some(225700), lon |-> Some(883600)]) >>,
    << Step("gps", [bus_id |-> B9]), NonDictStep >>,
    << Step("gps", [bus_id |-> B1]), Step("gps", [bus_id |-> B9]), Step("weather", EmptyDict) >>,
    << Step(NonStrTool, EmptyDict) >>,
    << Step("position", [bus_id |-> B1]) >> }

\* what the planner call yields: the call raises, or a text that parses
\* strictly ("json"), only through its brace-delimited part ("wrapped"), or
\* not at all ("garbage")
PlannerOutcomes ==
  { [call |-> "raises", plan |-> <<>>], [call |-> "garbage", plan |-> <<>>] }
    \cup { [call |-> "json", plan |-> p] : p \in LLMPlans }
    \cup { [call |-> "wrapped", plan |-> p] : p \in {q \in LLMPlans : Len(q) = 3} }

\* the plan ask extracts from the planner outcome (None when there is none)
ParsePlan(o) == IF o.call \in {"json", "wrapped"} THEN o.plan ELSE None

\* the generative plan taken as it comes, with no deterministic plan behind it
ChoosePlan_mut(client, o, user_query) == IF client THEN ParsePlan(o) ELSE None

\* lines 295-327: generative plan, else the deterministic one
ChoosePlan(client, o, user_query) ==
  LET plan == IF client THEN ParsePlan(o) ELSE None
  IN  IF plan = <<>> THEN fallback_plan(user_query) ELSE plan

\* what the composer call yields: it raises, or a text
ComposerOutcomes ==
  { [call |-> "raises", text |-> <<>>],
    [call |-> "text", text |-> <<" ", " ">>],
    [call |-> "text", text |-> <<" ", "Bus B1 will arrive", " ", " ", "soon.">>],
    [call |-> "text", text |-> <<"Sorry, I do not know.">>] }

\* ------------------------------------------------------------------------
\* Deterministic composer (lines 548-576)
\* ------------------------------------------------------------------------
Plural(n, word) == IF n # 1 THEN <<ToString(n), " ", word, "s">> ELSE <<ToString(n), " ", word>>

\* the hours / minutes text of both composers
EtaText(eta_sec) ==
  LET hours == eta_sec \div 3600
      minutes == (eta_sec % 3600) \div 60
  IN  IF hours > 0
      THEN Plural(hours, "hour") \o (IF minutes # 0 THEN <<" ">> \o Plural(minutes, "minute") ELSE <<>>)
      ELSE IF minutes > 0 THEN Plural(minutes, "minute")
      ELSE <<"a few seconds">>

\* eta_res.get("eta_sec") or eta_res.get("eta"): None when absent or 0
EtaOf(res) ==
  IF "eta_sec" \in DOMAIN res /\ res.eta_sec # 0 THEN Some(res.eta_sec)
  ELSE IF "eta" \in DOMAIN res /\ res.eta # 0 THEN Some(res.eta)
  ELSE None

IsEtaEntry(tr) == tr.step.tool = "eta"

DetCompose(tool_results) ==
  LET etas == {i \in DOMAIN tool_results : IsEtaEntry(tool_results[i])}
  IN  IF etas = {} THEN MsgNoInfo
      ELSE LET res == tool_results[FirstIndex(etas)].result
               eta_sec == EtaOf(res)
               eta_stop == Get(res, "stop_id")
           IN  IF eta_sec = None THEN MsgNoInfo
               ELSE <<"The bus is expected to reach stop", " ">> \o eta_stop
                      \o <<" ", "in about", " ">> \o EtaText(Val(eta_sec)) \o <<".">>

\* lines 522-578: generative answer when there is one, else deterministic
Compose(client, o, tool_results) ==
  LET final == IF client /\ o.call = "text" /\ o.text # <<>> THEN Strip(o.text) ELSE <<>>
  IN  IF final # <<>> THEN final ELSE DetCompose(tool_results)

\* ------------------------------------------------------------------------
\* PlannerAgent.handle_query: cache key, sanitising, answer clean-up
\* ------------------------------------------------------------------------
\* the key text without lower-casing
NormalizeQuery_mut(query) == NormSpace(Strip(query))

\* " ".join(query.strip().lower().split())
NormalizeQuery(query) == NormSpace(Lower(Strip(query)))

AskKey(query) == <<"ask">> \o NormalizeQuery(query)

ToolFailed(tool) == <<"Tool '", tool, "' failed.">>

\* one trace entry, lines 72-91
SanitizeEntry(tr) ==
  LET res == tr.result
  IN  IF "error" \in DOMAIN res /\ "result" \in DOMAIN res
      THEN IF res.error # None
           THEN [tr EXCEPT !.result = [error |-> ToolFailed(tr.step.tool)]]
           ELSE [tr EXCEPT !.result = res.result]
      ELSE IF "error" \in DOMAIN res /\ res.error # None
      THEN [tr EXCEPT !.result = [error |-> ToolFailed(tr.step.tool)]]
      ELSE tr

\* the sanitised trace, lines 66-91
Sanitize(tool_results) == [i \in DOMAIN tool_results |-> SanitizeEntry(tool_results[i])]

\* lines 93-103: the result handed on by handle_query
FinishResult(result) ==
  LET answer == NormSpace(result.answer)
  IN  [answer |-> IF answer = <<>> THEN MsgPlannerSorry ELSE answer,
       tool_results |-> Sanitize(result.tool_results),
       context |-> result.context]

\* ------------------------------------------------------------------------
\* SupervisorAgent.handle_user_query, lines 39-135, on a planner result
\* ------------------------------------------------------------------------
\* ExecutorAgent.ensure_tool_results: no result of the engine is None, so
\* every entry is copied as {"step", "result"}
ensure_tool_results(tool_results) ==
  [i \in DOMAIN tool_results |->
     [step |-> tool_results[i].step, result |-> tool_results[i].result]]

\* 30 * 60
LongEtaSec == 1800

StartsWithSorry(text) ==
  text # <<>> /\ text[1] \in {MsgEngineSorry[1], MsgPlannerSorry[1], MsgSupervisorSorry[1],
                              "Sorry, I do not know."}

\* (step.get("tool") or "").lower() raises on a tool that is not a str
SupervisorRaises(tool_results) ==
  \E i \in DOMAIN tool_results : ~IsStrTool(tool_results[i].step.tool)

ErrNoLower == <<"object has no attribute 'lower'">>

\* the last eta entry carrying eta_sec or eta, and the last gps entry
LastIndex(S) == CHOOSE i \in S : \A j \in S : j <= i

EtaEntries(tool_results) ==
  {i \in DOMAIN tool_results :
     /\ tool_results[i].step.tool = "eta"
     /\ ("eta_sec" \in DOMAIN tool_results[i].result \/ "eta" \in DOMAIN tool_results[i].result)}

GpsEntries(tool_results) == {i \in DOMAIN tool_results : tool_results[i].step.tool = "gps"}

\* other buses of the registry on the route of bus_id, in registry order
BusOrder == <<B1, B2, B3, B4>>

\* every bus of the route, bus_id itself included
AltBuses_mut(bus_id) ==
  LET status == get_bus_status(bus_id)
      main_route == IF status # None THEN status.route_id ELSE None
  IN  IF main_route = None THEN <<>>
      ELSE SelectSeq(BusOrder, LAMBDA b : Buses[b].route_id = main_route)

AltBuses(bus_id) ==
  LET status == get_bus_status(bus_id)
      main_route == IF status # None THEN status.route_id ELSE None
  IN  IF main_route = None THEN <<>>
      ELSE SelectSeq(BusOrder, LAMBDA b : b # bus_id /\ Buses[b].route_id = main_route)

AltText(bus_id, stop_id) ==
  LET alt == AltBuses(bus_id)
  IN  IF alt # <<>>
      THEN <<" ", "As an alternative, you could consider taking bus", " ">> \o alt[1]
             \o <<" ", "on route", " ">> \o get_bus_status(bus_id).route_id
             \o <<",", " ", "which may reach stop", " ">> \o stop_id
             \o <<" ", "earlier depending on its schedule.">>
      ELSE <<" ", "Since the current ETA is more than 30 minutes, you may also consider a faster mode such as metro/rail or a cab for most of the journey, and then a short auto/taxi ride near stop", " ">>
             \o stop_id \o <<".">>

TheBus == <<"the bus">>

TheStop == <<"the stop">>

EtaSentence(bus_id, stop_id, eta_sec) ==
  <<"Bus", " ">> \o bus_id \o <<" ", "is expected to reach stop", " ">> \o stop_id
    \o <<" ", "in about", " ">> \o EtaText(eta_sec) \o <<".">>

SupervisorAnswer(result) ==
  LET tool_results == result.tool_results
      base == result.answer
      friendly0 == IF Strip(base) # <<>> THEN NormSpace(base) ELSE <<>>
      etas == EtaEntries(tool_results)
      gpss == GpsEntries(tool_results)
      eta_entry == tool_results[LastIndex(etas)]
      eta_sec == EtaOf(eta_entry.result)
      gps_bus == IF gpss # {} THEN Get(tool_results[LastIndex(gpss)].result, "bus_id") ELSE None
      bus_id == Or(Get(eta_entry.step.params, "bus_id"), Or(gps_bus, TheBus))
      stop_id == Or(Get(eta_entry.step.params, "stop_id"),
                    Or(Get(eta_entry.result, "stop_id"), TheStop))
      sentence == EtaSentence(bus_id, stop_id, Val(eta_sec))
      withEta == IF friendly0 = <<>> \/ StartsWithSorry(friendly0) THEN sentence
                 ELSE sentence \o <<" ">> \o friendly0
      withAlt == IF Val(eta_sec) >= LongEtaSec THEN withEta \o AltText(bus_id, stop_id)
                 ELSE withEta
      friendly == IF etas # {} /\ eta_sec # None THEN withAlt ELSE friendly0
  IN  NormSpace(IF friendly = <<>> THEN MsgSupervisorSorry ELSE friendly)

\* collaborators handle_user_query consults on the result of handle_query:
\* the fleet registry, at lines 105-114, when the eta is long
SupervisorCalls(result) ==
  IF "error" \in DOMAIN result \/ SupervisorRaises(result.tool_results) THEN {}
  ELSE IF \E i \in EtaEntries(result.tool_results) :
            /\ i = LastIndex(EtaEntries(result.tool_results))
            /\ EtaOf(result.tool_results[i].result) # None
            /\ Val(EtaOf(result.tool_results[i].result)) >= LongEtaSec
       THEN {"fleet"}
  ELSE {}

\* handle_user_query on the result of handle_query
handle_user_query_result(result) ==
  IF "error" \in DOMAIN result THEN result
  ELSE IF SupervisorRaises(result.tool_results) THEN [error |-> ErrNoLower]
  ELSE [answer |-> SupervisorAnswer(result),
        plan |-> result,
        executed |-> ensure_tool_results(result.tool_results)]

\* POST /ask of the agent microservice, on the supervisor's return value
ask_endpoint(query, response) ==
  IF Strip(query) = <<>> THEN [status |-> 400, answer |-> <<>>]
  ELSE IF "error" \in DOMAIN response THEN [status |-> 500, answer |-> <<>>]
  ELSE [status |-> 200,
        answer |-> IF response.answer # <<>> THEN response.answer
                   ELSE <<"Sorry, I could not find an answer.">>]

\* ------------------------------------------------------------------------
\* Guardrails of DecisionEngine.ask (lines 234-281).  sims is the encoder's
\* similarity vector for this query, None in the degraded mode.
\* ------------------------------------------------------------------------
Abstain(reason, answer, checks, calls) ==
  [abstain |-> reason, answer |-> answer, context |-> <<>>, checks |-> checks, calls |-> calls]

Guardrails_mutOrder(user_query, sims) ==
  LET query == Strip(user_query)
      invalid_reason == validate_referenced_entities(query)
      pairs == retrieve_with_scores(sims, FAISS_K)
      context_docs == [i \in DOMAIN pairs |-> pairs[i].doc]
  IN  IF ~is_transport_query(query)
      THEN Abstain("domain", MsgOutOfDomain, <<"domain">>, {})
      ELSE IF query = <<>>
      THEN Abstain("blank", MsgNoInfo, <<"domain", "blank">>, {})
      ELSE IF invalid_reason # None
      THEN Abstain("entity", invalid_reason, <<"domain", "blank", "entity">>, {"fleet"})
      ELSE IF context_docs # <<>> /\ MaxSim(pairs) < RAG_MIN_SIM
      THEN Abstain("relevance", MsgUnreliable,
                   <<"domain", "blank", "entity", "relevance">>, {"fleet", "retrieval"})
      ELSE [abstain |-> "none", answer |-> <<>>,
            context |-> IF context_docs # <<>> THEN context_docs ELSE retrieve_context(FAISS_K),
            checks |-> <<"domain", "blank", "entity", "relevance">>,
            calls |-> {"fleet", "retrieval"}]

Guardrails_mutContext(user_query, sims) ==
  LET query == Strip(user_query)
      invalid_reason == validate_referenced_entities(query)
      pairs == retrieve_with_scores(sims, FAISS_K)
      context_docs == [i \in DOMAIN pairs |-> pairs[i].doc]
  IN  IF query = <<>>
      THEN Abstain("blank", MsgNoInfo, <<"blank">>, {})
      ELSE IF ~is_transport_query(query)
      THEN Abstain("domain", MsgOutOfDomain, <<"blank", "domain">>, {})
      ELSE IF invalid_reason # None
      THEN Abstain("entity", invalid_reason, <<"blank", "domain", "entity">>, {"fleet"})
      ELSE IF context_docs # <<>> /\ MaxSim(pairs) < RAG_MIN_SIM
      THEN [abstain |-> "relevance", answer |-> MsgUnreliable, context |-> context_docs,
            checks |-> <<"blank", "domain", "entity", "relevance">>,
            calls |-> {"fleet", "retrieval"}]
      ELSE [abstain |-> "none", answer |-> <<>>,
            context |-> IF context_docs # <<>> THEN context_docs ELSE retrieve_context(FAISS_K),
            checks |-> <<"blank", "domain", "entity", "relevance">>,
            calls |-> {"fleet", "retrieval"}]

Guardrails(user_query, sims) ==
  LET query == Strip(user_query)
      invalid_reason == validate_referenced_entities(query)
      pairs == retrieve_with_scores(sims, FAISS_K)
      context_docs == [i \in DOMAIN pairs |-> pairs[i].doc]
  IN  IF query = <<>>
      THEN Abstain("blank", MsgNoInfo, <<"blank">>, {})
      ELSE IF ~is_transport_query(query)
      THEN Abstain("domain", MsgOutOfDomain, <<"blank", "domain">>, {})
      ELSE IF invalid_reason # None
      THEN Abstain("entity", invalid_reason, <<"blank", "domain", "entity">>, {"fleet"})
      ELSE IF context_docs # <<>> /\ MaxSim(pairs) < RAG_MIN_SIM
      THEN Abstain("relevance", MsgUnreliable,
                   <<"blank", "domain", "entity", "relevance">>, {"fleet", "retrieval"})
      ELSE [abstain |-> "none", answer |-> <<>>,
            context |-> IF context_docs # <<>> THEN context_docs ELSE retrieve_context(FAISS_K),
            checks |-> <<"blank", "domain", "entity", "relevance">>,
            calls |-> {"fleet", "retrieval"}]

\* ------------------------------------------------------------------------
\* State
\* ------------------------------------------------------------------------
VARIABLES
  pc,            \* position of the request: idle, guard, plan, exec, finish, supervise, done
  client,        \* DecisionEngine.client is set (a Groq client is configured)
  redisUp,       \* RedisClient.redis is connected
  weatherCache,  \* weather:* keys of the store
  etaCache,      \* eta:* keys of the store
  askCache,      \* ask:* keys of the store
  user_query,    \* the query of the request
  abstain,       \* guardrail that refused the request, "none" when none did
  checks,        \* guardrail checks evaluated, in order
  context,       \* context documents of ask
  plan,          \* the plan being executed
  idx,           \* index of the next plan step
  tool_results,  \* the trace of ask
  last_bus_loc,  \* last_bus_loc of ask
  last_weather,  \* last_weather of ask
  calls,         \* collaborators called while serving the request
  hows,          \* how each executed step obtained its result
  plannerOut,    \* the plan extracted from the planner's reply (None when there is none)
  result,        \* what ask, then handle_query, returned (None before)
  response,      \* what handle_user_query returned (None before)
  eta_in,        \* inputs of an eta computation taken on its own (None when unused)
  eta_out,       \* the eta results computed from eta_in (None before)
  served,        \* the request answered before this one (None when there is none)
  npc,           \* position of the background notifier: sleep, scan
  subscriptions, \* SubscriptionService.subscriptions, in insertion order
  subs,          \* the batch of the running scan cycle
  sub_idx,       \* index in subs of the next subscription of the cycle
  runs,          \* engine.ask calls of the cycle
  sent,          \* notify_user calls of the cycle
  caught,        \* an evaluation of the cycle raised and was caught
  last_eval,     \* what the last evaluation of the cycle did (None before)
  requests,      \* /subscribe and /unsubscribe requests handled
  confirmations, \* confirmation messages sent by /subscribe
  reply,         \* the response to the last /subscribe or /unsubscribe request (None before)
  USERS,         \* confirmed users of the auth service, in insertion order
  PENDING_SIGNUPS, \* pending signups of the auth service, in insertion order
  PHONE_TO_USERS, \* phone -> user ids of the auth service
  SESSIONS,      \* sessions of the auth service, the token being the position
  authRedis,     \* auth:signup:* keys of the store
  now,           \* seconds since the auth service started
  auth_requests, \* auth requests handled
  auth_reply     \* the response to the last auth request (None before)

engineVars ==
  << pc, client, redisUp, weatherCache, etaCache, askCache, user_query, abstain, checks,
     context, plan, idx, tool_results, last_bus_loc, last_weather, calls, hows, plannerOut,
     result, response >>

etaVars == << eta_in, eta_out >>

notifierVars ==
  << npc, subscriptions, subs, sub_idx, runs, sent, caught, last_eval, requests, confirmations,
     reply >>

authVars ==
  << USERS, PENDING_SIGNUPS, PHONE_TO_USERS, SESSIONS, authRedis, now, auth_requests, auth_reply >>

auxVars == << etaVars, served, notifierVars, authVars >>

\* what the notifier and the subscription endpoints leave alone
restVars == << engineVars, etaVars, served, authVars >>

vars == << engineVars, auxVars >>

\* contents the external store holds when it is reachable
WeatherCachePopulated ==
  (WeatherKey(225705, 883595) :>
      [ok |-> TRUE, value |-> [condition |-> "Haze", expected_delay_sec |-> 300]])
  @@ (WeatherKey(225755, 883650) :> [ok |-> FALSE])

EtaCachePopulated ==
  (EtaKey(B1, S1) :> [ok |-> TRUE, value |-> [eta_sec |-> 300, cached_at |-> "t0"]])
  @@ (EtaKey(B3, S1) :> [ok |-> FALSE])

\* no request is being served
RequestAtRest ==
  /\ pc = "idle"
  /\ user_query = <<>>
  /\ abstain = "none"
  /\ checks = <<>>
  /\ context = <<>>
  /\ plan = <<>>
  /\ idx = 1
  /\ tool_results = <<>>
  /\ last_bus_loc = None
  /\ last_weather = None
  /\ calls = {}
  /\ hows = <<>>
  /\ plannerOut = None
  /\ result = None
  /\ response = None

\* the engine and the store's tool caches after start-up
StoresInit ==
  /\ client \in BOOLEAN
  /\ redisUp \in BOOLEAN
  /\ weatherCache = IF redisUp THEN WeatherCachePopulated ELSE <<>>
  /\ etaCache = IF redisUp THEN EtaCachePopulated ELSE <<>>

EngineInit == StoresInit /\ askCache = <<>> /\ RequestAtRest

EtaAtRest == eta_in = None /\ eta_out = None

\* the auth service has no user and no pending signup
AuthAtRest ==
  /\ USERS = <<>>
  /\ PENDING_SIGNUPS = <<>>
  /\ PHONE_TO_USERS = <<>>
  /\ SESSIONS = <<>>
  /\ authRedis = <<>>
  /\ now = 0
  /\ auth_requests = 0
  /\ auth_reply = None

\* no subscription stored, the background loop asleep before its first tick
NotifierAtRest ==
  /\ npc = "sleep"
  /\ subscriptions = <<>>
  /\ subs = <<>>
  /\ sub_idx = 1
  /\ runs = 0
  /\ sent = 0
  /\ caught = FALSE
  /\ last_eval = None
  /\ requests = 0
  /\ confirmations = 0
  /\ reply = None

Init == EngineInit /\ EtaAtRest /\ served = None /\ NotifierAtRest /\ AuthAtRest

\* ------------------------------------------------------------------------
\* Actions
\* ------------------------------------------------------------------------
EngineResult(answer, trace, ctx) == [answer |-> answer, tool_results |-> trace, context |-> ctx]

\* any cached text json.loads accepts
ValidCachedAnswer_mut(cached) == Decodes(cached)

\* a cached text json.loads turns into a dict with a truthy answer
ValidCachedAnswer(cached) ==
  Decodes(cached) /\ "answer" \in DOMAIN cached.value /\ cached.value.answer # <<>>

\* handle_user_query -> handle_query, lines 39-57: response cache lookup
HandleQueryStart(q) ==
  /\ pc = "idle"
  /\ user_query' = q
  /\ LET cached == RedisGet(redisUp, askCache, AskKey(q))
     IN  IF ValidCachedAnswer(cached)
         THEN /\ result' = cached.value
              /\ pc' = "supervise"
         ELSE /\ result' = None
              /\ pc' = "guard"
  /\ calls' = {"ask_cache"}
  /\ UNCHANGED << client, redisUp, weatherCache, etaCache, askCache, abstain, checks, context,
                  plan, idx, tool_results, last_bus_loc, last_weather, hows, plannerOut,
                  response >>

\* DecisionEngine.ask, lines 234-281
AskGuardrails(sims) ==
  /\ pc = "guard"
  /\ LET g == Guardrails(user_query, sims)
     IN  /\ abstain' = g.abstain
         /\ checks' = g.checks
         /\ calls' = calls \cup g.calls
         /\ IF g.abstain # "none"
            THEN /\ result' = EngineResult(g.answer, <<>>, g.context)
                 /\ context' = g.context
                 /\ pc' = "finish"
            ELSE /\ result' = None
                 /\ context' = g.context
                 /\ pc' = "plan"
  /\ UNCHANGED << client, redisUp, weatherCache, etaCache, askCache, user_query, plan, idx,
                  tool_results, last_bus_loc, last_weather, hows, plannerOut, response >>

\* DecisionEngine.ask, lines 283-331
AskPlan(o) ==
  /\ pc = "plan"
  /\ plan' = ChoosePlan(client, o, user_query)
  /\ plannerOut' = IF client THEN ParsePlan(o) ELSE None
  /\ calls' = IF client THEN calls \cup {"planner_llm"} ELSE calls
  /\ idx' = 1
  /\ tool_results' = <<>>
  /\ last_bus_loc' = None
  /\ last_weather' = None
  /\ hows' = <<>>
  /\ pc' = "exec"
  /\ UNCHANGED << client, redisUp, weatherCache, etaCache, askCache, user_query, abstain,
                  checks, context, result, response >>

\* the live readings get_bus_location may give while this step runs
StepLive(step) ==
  IF ~IsDictStep(step) THEN {None}
  ELSE IF step.tool = "gps"
       THEN LET b == Or(Get(step.params, "bus_id"), extract_bus_id(user_query))
            IN  IF b = None THEN {None} ELSE GpsOutcomes(b)
  ELSE IF step.tool = "eta"
       THEN LET b == EtaBusId(step.params, user_query)
            IN  IF b = None THEN {None} ELSE GpsOutcomes(b)
  ELSE {None}

StepWeather(step) ==
  IF IsDictStep(step) /\ step.tool = "weather" THEN WeatherOutcomes
  ELSE {CHOOSE w \in WeatherOutcomes : w.expected_delay_sec = 0}

\* one iteration of the loop of lines 333-520
ExecStep(live, wx) ==
  /\ pc = "exec"
  /\ idx <= Len(plan)
  /\ LET step == plan[idx]
     IN  IF ~IsDictStep(step)
         THEN \* step.get raises outside the step's try: the handler of
              \* lines 579-585 returns the apology
              /\ result' = EngineResult(MsgEngineSorry, <<>>, <<>>)
              /\ pc' = "finish"
              /\ UNCHANGED << idx, tool_results, last_bus_loc, last_weather, calls, hows,
                              weatherCache, etaCache >>
         ELSE /\ pc' = "exec"
              /\ idx' = idx + 1
              /\ result' = None
              /\ IF step.tool = "gps"
                 THEN LET r == GpsStep(step.params, user_query, last_bus_loc, live)
                      IN  /\ tool_results' = Append(tool_results, [step |-> step, result |-> r.result])
                          /\ last_bus_loc' = r.loc
                          /\ calls' = calls \cup r.calls
                          /\ hows' = Append(hows, [how |-> "gps"])
                          /\ UNCHANGED << last_weather, weatherCache, etaCache >>
                 ELSE IF step.tool = "weather"
                 THEN LET r == WeatherStep(step.params, last_bus_loc, last_weather,
                                           redisUp, weatherCache, wx)
                      IN  /\ tool_results' = Append(tool_results, [step |-> step, result |-> r.result])
                          /\ last_weather' = r.lastw
                          /\ calls' = calls \cup r.calls
                          /\ weatherCache' = r.store
                          /\ hows' = Append(hows, [how |-> IF r.hit THEN "cache" ELSE "weather"])
                          /\ UNCHANGED << last_bus_loc, etaCache >>
                 ELSE IF step.tool = "eta"
                 THEN LET r == EtaStep(step.params, user_query, context, last_bus_loc,
                                       last_weather, redisUp, etaCache, live)
                      IN  /\ tool_results' = Append(tool_results, [step |-> step, result |-> r.result])
                          /\ calls' = calls \cup r.calls
                          /\ etaCache' = r.store
                          /\ hows' = Append(hows, r.diag)
                          /\ UNCHANGED << last_bus_loc, last_weather, weatherCache >>
                 ELSE /\ tool_results' = Append(tool_results,
                                                [step |-> step, result |-> [info |-> "no-op"]])
                      /\ hows' = Append(hows, [how |-> "noop"])
                      /\ UNCHANGED << last_bus_loc, last_weather, calls, weatherCache, etaCache >>
  /\ UNCHANGED << client, redisUp, askCache, user_query, abstain, checks, context, plan,
                  plannerOut, response >>

\* DecisionEngine.ask, lines 522-578
AskCompose(o) ==
  /\ pc = "exec"
  /\ idx > Len(plan)
  /\ result' = EngineResult(Compose(client, o, tool_results), tool_results, context)
  /\ calls' = IF client THEN calls \cup {"composer_llm"} ELSE calls
  /\ pc' = "finish"
  /\ UNCHANGED << client, redisUp, weatherCache, etaCache, askCache, user_query, abstain,
                  checks, context, plan, idx, tool_results, last_bus_loc, last_weather, hows,
                  plannerOut, response >>

\* PlannerAgent.handle_query, lines 62-113
HandleQueryFinish ==
  /\ pc = "finish"
  /\ result' = FinishResult(result)
  /\ askCache' = RedisSet(redisUp, askCache, AskKey(user_query),
                          [ok |-> TRUE, value |-> FinishResult(result)])
  /\ pc' = "supervise"
  /\ UNCHANGED << client, redisUp, weatherCache, etaCache, user_query, abstain, checks,
                  context, plan, idx, tool_results, last_bus_loc, last_weather, calls, hows,
                  plannerOut, response >>

\* SupervisorAgent.handle_user_query, lines 34-138
SupervisorReturn ==
  /\ pc = "supervise"
  /\ response' = handle_user_query_result(result)
  /\ calls' = calls \cup SupervisorCalls(result)
  /\ pc' = "done"
  /\ UNCHANGED << client, redisUp, weatherCache, etaCache, askCache, user_query, abstain,
                  checks, context, plan, idx, tool_results, last_bus_loc, last_weather,
                  hows, plannerOut, result >>

Next ==
  \/ pc = "idle" /\ UNCHANGED auxVars /\ \E q \in Queries : HandleQueryStart(q)
  \/ pc = "guard" /\ UNCHANGED auxVars
       /\ \E sims \in {None} \cup {Some(v) : v \in ScoreVectors} : AskGuardrails(sims)
  \/ pc = "plan" /\ UNCHANGED auxVars /\ \E o \in PlannerOutcomes : AskPlan(o)
  \/ pc = "exec" /\ idx <= Len(plan) /\ UNCHANGED auxVars
       /\ \E live \in StepLive(plan[idx]), wx \in StepWeather(plan[idx]) : ExecStep(live, wx)
  \/ pc = "exec" /\ UNCHANGED auxVars /\ \E o \in ComposerOutcomes : AskCompose(o)
  \/ HandleQueryFinish /\ UNCHANGED auxVars
  \/ SupervisorReturn /\ UNCHANGED auxVars

Spec == Init /\ [][Next]_vars

\* ------------------------------------------------------------------------
\* Two requests in a row against the response cache (planner_agent.py,
\* lines 39-113)
\* ------------------------------------------------------------------------
\* redis_setex(cache_key, 60, ...)
ResponseTtlSec == 60

WhenB1 == JoinWords(<< <<"W", "h", "e", "n">>, <<"B", "1", "?">> >>)

\* one question in several spellings, and a different question
CacheQueries ==
  { WhenB1, Lower(WhenB1),
    <<" ">> \o <<"W", "H", "E", "N">> \o <<" ", " ">> \o <<"B", "1", "?">> \o <<" ">>,
    JoinWords(<< <<"w", "e", "a", "t", "h", "e", "r">>, <<"B", "1", "?">> >>) }

\* the encoder's similarities in these runs: degraded mode, relevant, irrelevant
CacheSims == { None, Some(<<80, 60, 40, 20, 10>>), Some(<<30, 20, 10, 5, 0 - 10>>) }

\* the planner's replies in these runs: the call raises, a three-step plan,
\* a plan whose tool is not a string
CachePlannerOutcomes ==
  { o \in PlannerOutcomes :
      \/ o.call = "raises"
      \/ o.call = "json" /\ Len(o.plan) = 3
      \/ o.call = "json" /\ o.plan = << Step(NonStrTool, EmptyDict) >> }

\* the composer's replies in these runs: the call raises, or a text
CacheComposerOutcomes ==
  { o \in ComposerOutcomes : o.call = "raises" \/ Len(o.text) > 2 }

\* ask:* contents a reachable store may hold before the first request: none,
\* a text json.loads rejects, a JSON object without an answer
AskCacheContents ==
  { <<>>,
    AskKey(WhenB1) :> [ok |-> FALSE],
    AskKey(WhenB1) :> [ok |-> TRUE, value |-> [detail |-> <<"Not Found">>]] }

\* the tool caches are empty: ask never succeeds in writing them
CacheInit ==
  /\ client \in BOOLEAN
  /\ redisUp \in BOOLEAN
  /\ weatherCache = <<>>
  /\ etaCache = <<>>
  /\ askCache \in (IF redisUp THEN AskCacheContents ELSE {<<>>})
  /\ RequestAtRest
  /\ EtaAtRest
  /\ served = None
  /\ NotifierAtRest /\ AuthAtRest

\* the store drops a key whose time to live has run out
RedisExpire(store, key) == [k \in DOMAIN store \ {key} |-> store[k]]

\* the first request has returned; the next one arrives wait seconds after
\* its answer was written to the response cache
NextRequest(wait) ==
  /\ pc = "done"
  /\ served = None
  /\ served' = [query |-> user_query, result |-> result, response |-> response,
                wait |-> wait]
  /\ askCache' = IF wait >= ResponseTtlSec THEN RedisExpire(askCache, AskKey(user_query))
                 ELSE askCache
  /\ pc' = "idle"
  /\ user_query' = <<>>
  /\ abstain' = "none"
  /\ checks' = <<>>
  /\ context' = <<>>
  /\ plan' = <<>>
  /\ idx' = 1
  /\ tool_results' = <<>>
  /\ last_bus_loc' = None
  /\ last_weather' = None
  /\ calls' = {}
  /\ hows' = <<>>
  /\ plannerOut' = None
  /\ result' = None
  /\ response' = None
  /\ UNCHANGED << client, redisUp, weatherCache, etaCache, etaVars, notifierVars, authVars >>

CacheNext ==
  \/ pc = "idle" /\ UNCHANGED auxVars /\ \E q \in CacheQueries : HandleQueryStart(q)
  \/ pc = "guard" /\ UNCHANGED auxVars /\ \E sims \in CacheSims : AskGuardrails(sims)
  \/ pc = "plan" /\ UNCHANGED auxVars /\ \E o \in CachePlannerOutcomes : AskPlan(o)
  \/ pc = "exec" /\ idx <= Len(plan) /\ UNCHANGED auxVars
       /\ \E live \in StepLive(plan[idx]), wx \in StepWeather(plan[idx]) : ExecStep(live, wx)
  \/ pc = "exec" /\ UNCHANGED auxVars /\ \E o \in CacheComposerOutcomes : AskCompose(o)
  \/ HandleQueryFinish /\ UNCHANGED auxVars
  \/ SupervisorReturn /\ UNCHANGED auxVars
  \/ \E wait \in {ResponseTtlSec - 1, ResponseTtlSec} : NextRequest(wait)

CacheSpec == CacheInit /\ [][CacheNext]_vars

\* ------------------------------------------------------------------------
\* The eta computation on its own (decision_engine.py, lines 471-501)
\* ------------------------------------------------------------------------
\* the position of the bus, fixed
EtaBus == [lat |-> Some(225700), lon |-> Some(883600)]

\* stops north and east of the bus, from the bus's own position to 300 km away
EtaStops ==
  { [lat |-> Some(225700 + dlat), lon |-> Some(883600 + dlon)] :
      dlat \in {0, 5, 8, 9, 14, 100, 2800}, dlon \in {0, 6} }

\* last_bus_loc with the speeds a position may carry, or without a speed
EtaLocs ==
  { [lat |-> EtaBus.lat, lon |-> EtaBus.lon, speed_kmph |-> Some(v)] : v \in {0, 3, 25, 40} }
  \cup { [lat |-> EtaBus.lat, lon |-> EtaBus.lon] }

\* last_weather: no weather step ran, or one that recorded a delay
EtaWeathers ==
  { None, [condition |-> "Rain", expected_delay_sec |-> 300], [delay |-> 900] }

EtaInputs == [loc : EtaLocs, lastw : EtaWeathers, stop1 : EtaStops, stop2 : EtaStops]

EtaInit ==
  /\ EngineInit /\ ~client /\ ~redisUp
  /\ eta_in \in EtaInputs /\ eta_out = None
  /\ served = None
  /\ NotifierAtRest /\ AuthAtRest

\* lines 471-501 applied to the two stops of eta_in
EtaCompute ==
  /\ eta_in # None
  /\ eta_out = None
  /\ eta_out' = << EtaResult(EtaBus, eta_in.stop1, S1, eta_in.loc, eta_in.lastw),
                   EtaResult(EtaBus, eta_in.stop2, S2, eta_in.loc, eta_in.lastw) >>
  /\ UNCHANGED << engineVars, eta_in, served, notifierVars, authVars >>

EtaNext == EtaCompute

EtaSpec == EtaInit /\ [][EtaNext]_vars


\* ------------------------------------------------------------------------
\* Properties
\* ------------------------------------------------------------------------
\* ask has returned for this request
Returned == pc \in {"finish", "supervise", "done"}

\* the guardrails of ask were evaluated for this request
AskRan == checks # <<>>

GuardrailOrder == <<"blank", "domain", "entity", "relevance">>

IsPrefix(a, b) == Len(a) <= Len(b) /\ \A i \in DOMAIN a : a[i] = b[i]

\* collaborators that plan, run tools, read the tool caches or compose
WorkCalls ==
  {"planner_llm", "gps", "weather", "eta", "weather_cache", "eta_cache", "composer_llm"}

ToolCalls == {"gps", "weather", "eta"}

\* bus and route ids mentioned by the query, in upper case, that the
\* registry does not hold
MissingIds(query) ==
  (IdFindAllUpper(query, BusPrefix) \ DOMAIN Buses)
    \cup (IdFindAllUpper(query, RoutePrefix) \ DOMAIN Routes)

HasDomainKeyword(query) == ContainsAny(Lower(query), DomainKeywords)

HasPrefixedId(query) == IdSearch(query, BusPrefix \cup RoutePrefix \cup StopPrefix) # None

\* C1: handle_user_query always returns a result with a non-empty answer,
\* never an error result.
C1_AlwaysAnswers ==
  pc = "done" =>
    /\ "error" \notin DOMAIN response
    /\ "answer" \in DOMAIN response
    /\ response.answer # <<>>

\* C2: the guardrails are evaluated in the order blank, domain, entity,
\* relevance; the reason returned is that of the first failing check and no
\* later check is evaluated; a blank query is rejected by the blank check.
C2_GuardrailOrder ==
  (pc = "finish" /\ AskRan) =>
    LET query == Strip(user_query)
    IN  /\ IsPrefix(checks, GuardrailOrder)
        /\ (abstain # "none" => checks[Len(checks)] = abstain)
        /\ (abstain = "none" => checks = GuardrailOrder)
        /\ (query = <<>> <=> abstain = "blank")
        /\ (abstain = "blank" => result.answer = MsgNoInfo)
        /\ (abstain = "domain" => ~is_transport_query(query))
        /\ (abstain = "entity" <=>
              /\ query # <<>>
              /\ is_transport_query(query)
              /\ validate_referenced_entities(query) # None)
        /\ ("fleet" \in calls <=> "entity" \in Range(checks))
        /\ ("retrieval" \in calls <=> "relevance" \in Range(checks))

C2_Witness ==
  /\ pc = "finish"
  /\ user_query # <<>>
  /\ Strip(user_query) = <<>>
  /\ abstain = "blank"
  /\ checks = <<"blank">>
  /\ result.answer = MsgNoInfo

\* C3: when a guardrail abstains, the returned trace and context are empty
\* and neither planner, tool, tool cache nor composer was called.
C3_AbstainDoesNoWork ==
  (Returned /\ abstain # "none") =>
    /\ result.tool_results = <<>>
    /\ result.context = <<>>
    /\ calls \cap WorkCalls = {}

C3_Witness ==
  /\ pc = "finish"
  /\ abstain = "relevance"
  /\ "retrieval" \in calls
  /\ result.context = <<>>
  /\ result.tool_results = <<>>

\* C4: a query that passes the blank and domain checks and mentions a bus or
\* route id missing from the registry gets an abstain message naming a
\* missing id in upper case, with an empty trace; when no mentioned id is
\* missing the entity check does not abstain.
C4_UnknownEntityAbstains ==
  (pc = "finish" /\ AskRan) =>
    LET query == Strip(user_query)
        missing == MissingIds(query)
    IN  /\ (query # <<>> /\ is_transport_query(query) /\ missing # {}) =>
              /\ abstain = "entity"
              /\ \E id \in missing : Contains(result.answer, id)
              /\ result.tool_results = <<>>
        /\ (missing = {} => abstain # "entity")

C4_Witness ==
  /\ pc = "done"
  /\ abstain = "entity"
  /\ Contains(user_query, <<"r", "7">>)
  /\ Contains(response.answer, R7)
  /\ response.executed = <<>>

\* C5: a non-blank query without domain keyword and without B-, R- or
\* S-prefixed id is answered by /ask with 200 and the out-of-domain message,
\* and no tool runs; a query with a keyword or such an id is never rejected
\* by the domain filter.
C5_OutOfDomain ==
  pc = "done" =>
    LET query == Strip(user_query)
        inDomain == HasDomainKeyword(query) \/ HasPrefixedId(query)
        http == ask_endpoint(user_query, response)
    IN  /\ (query # <<>> /\ ~inDomain) =>
              /\ http.status = 200
              /\ http.answer = MsgOutOfDomain
              /\ calls \cap ToolCalls = {}
              /\ response.executed = <<>>
        /\ (inDomain => abstain # "domain")

C5_Witness ==
  /\ pc = "done"
  /\ Strip(user_query) = <<"x", "y", "z", "1", "2", "3">>
  /\ abstain = "domain"
  /\ ask_endpoint(user_query, response) = [status |-> 200, answer |-> MsgOutOfDomain]

\* the plan of this request was handed to the executor and ask has returned
PlanExecuted == Returned /\ AskRan /\ abstain = "none"

IsEtaStep(tr) == tr.step.tool = "eta"

\* C6: a failing step records its error (or the eta fallback) and every
\* later step of the plan is still executed: when ask returns, all steps of
\* the plan have been executed and recorded.
C6_FailureNeverAborts ==
  PlanExecuted =>
    /\ idx = Len(plan) + 1
    /\ Len(tool_results) = Len(plan)
    /\ result.answer # MsgEngineSorry

\* C7: an eta step whose stop is found by none of the three lookup paths, or
\* whose bus has no position, results in eta_sec = 1200 marked as fallback;
\* no eta step records an error.
C7_EtaFallback ==
  /\ Len(hows) = Len(tool_results)
  /\ \A i \in DOMAIN tool_results :
       IsEtaStep(tool_results[i]) =>
         LET r == tool_results[i].result
             d == hows[i]
         IN  /\ "error" \notin DOMAIN r
             /\ (d.how = "exception" \/ (d.how # "cache" /\ (~d.stop \/ ~d.bus))) =>
                   /\ "eta_sec" \in DOMAIN r /\ r.eta_sec = FallbackEtaSec
                   /\ "fallback" \in DOMAIN r /\ r.fallback = TRUE
  /\ Returned =>
       \A i \in DOMAIN result.tool_results :
         IsEtaStep(result.tool_results[i]) => "error" \notin DOMAIN result.tool_results[i].result

C7_Witness ==
  \E i \in DOMAIN tool_results :
    /\ IsEtaStep(tool_results[i])
    /\ Get(tool_results[i].step.params, "stop") = S9
    /\ hows[i].how = "unresolved"
    /\ hows[i].path = "none"
    /\ ~hows[i].stop
    /\ hows[i].bus
    /\ tool_results[i].result.eta_sec = FallbackEtaSec
    /\ tool_results[i].result.fallback

\* C8: every eta entry of the trace carries a non-negative integer eta_sec
\* or is marked as a fallback.
C8_EtaNonNegative ==
  \A i \in DOMAIN tool_results :
    IsEtaStep(tool_results[i]) =>
      LET r == tool_results[i].result
      IN  \/ "fallback" \in DOMAIN r /\ r.fallback = TRUE
          \/ "eta_sec" \in DOMAIN r /\ r.eta_sec \in Nat

C8_Witness ==
  \E i \in DOMAIN tool_results :
    /\ IsEtaStep(tool_results[i])
    /\ hows[i].how = "computed"
    /\ WeatherDelay(last_weather) > 0
    /\ "fallback" \notin DOMAIN tool_results[i].result
    /\ tool_results[i].result.eta_sec >= WeatherDelay(last_weather)

\* C9: after a plan was executed the trace has one entry per plan step, in
\* plan order, the i-th entry carrying the i-th step, and handle_query keeps
\* that length and order.
C9_TraceMatchesPlan ==
  PlanExecuted =>
    /\ Len(result.tool_results) = Len(plan)
    /\ \A i \in DOMAIN result.tool_results : result.tool_results[i].step = plan[i]

\* no keyword rule of the deterministic planner fires and there is no bus id
NoRuleFires(query) ==
  /\ ~ContainsAny(Lower(query), EtaKeywords \cup WeatherKeywords \cup LocationKeywords)
  /\ IdSearch(query, BusPrefix) = None

SupervisorEtas == {0, 60, 1799, 1800, 1801, 7300}

\* the eta entry of a result: its step names a bus and a stop or not
SupervisorEtaEntries ==
  { [step |-> Step("eta", params), result |-> [eta_sec |-> e, stop_id |-> S1]] :
      params \in { [bus_id |-> B1, stop_id |-> S1], [bus_id |-> B2, stop_id |-> S1],
                   [bus_id |-> B4, stop_id |-> S2], [bus_id |-> B9, stop_id |-> S1],
                   [bus_id |-> Lower(B1)], EmptyDict },
      e \in SupervisorEtas }

\* a gps entry for B3, or none, in front of the eta entry
SupervisorTraces ==
  { << tr >> : tr \in SupervisorEtaEntries }
    \cup { << [step |-> Step("gps", [bus_id |-> B3]), result |-> get_bus_status(B3)], tr >> :
             tr \in SupervisorEtaEntries }

SupervisorResults ==
  { [answer |-> a, tool_results |-> t, context |-> <<>>] :
      a \in { MsgPlannerSorry, <<"Bus B1 will arrive", " ", "soon.">> },
      t \in SupervisorTraces }

SupervisorInit ==
  /\ client = FALSE /\ redisUp = FALSE
  /\ weatherCache = <<>> /\ etaCache = <<>> /\ askCache = <<>>
  /\ RequestAtRest
  /\ EtaAtRest
  /\ served = None
  /\ NotifierAtRest /\ AuthAtRest

\* handle_query returns r to handle_user_query (line 33)
PlannerReturns(r) ==
  /\ pc = "idle"
  /\ result' = r
  /\ pc' = "supervise"
  /\ UNCHANGED << client, redisUp, weatherCache, etaCache, askCache, user_query, abstain,
                  checks, context, plan, idx, tool_results, last_bus_loc, last_weather, calls,
                  hows, plannerOut, response, auxVars >>

SupervisorNext ==
  \/ \E r \in SupervisorResults : PlannerReturns(r)
  \/ SupervisorReturn /\ UNCHANGED auxVars

SupervisorSpec == SupervisorInit /\ [][SupervisorNext]_vars

\* ------------------------------------------------------------------------
\* One request "When will B1 reach S1?" without a generative model
\* ------------------------------------------------------------------------
ScenarioQuery ==
  JoinWords(<< <<"W", "h", "e", "n">>, <<"w", "i", "l", "l">>, <<"B", "1">>,
               <<"r", "e", "a", "c", "h">>, <<"S", "1", "?">> >>)

ScenarioInit ==
  /\ StoresInit /\ ~client
  /\ askCache = <<>>
  /\ RequestAtRest
  /\ EtaAtRest
  /\ served = None
  /\ NotifierAtRest /\ AuthAtRest

ScenarioNext ==
  \/ pc = "idle" /\ UNCHANGED auxVars /\ HandleQueryStart(ScenarioQuery)
  \/ pc = "guard" /\ UNCHANGED auxVars
       /\ \E sims \in {None} \cup {Some(v) : v \in ScoreVectors} : AskGuardrails(sims)
  \/ pc = "plan" /\ UNCHANGED auxVars /\ \E o \in PlannerOutcomes : AskPlan(o)
  \/ pc = "exec" /\ idx <= Len(plan) /\ UNCHANGED auxVars
       /\ \E live \in StepLive(plan[idx]), wx \in StepWeather(plan[idx]) : ExecStep(live, wx)
  \/ pc = "exec" /\ UNCHANGED auxVars /\ \E o \in ComposerOutcomes : AskCompose(o)
  \/ HandleQueryFinish /\ UNCHANGED auxVars
  \/ SupervisorReturn /\ UNCHANGED auxVars

ScenarioSpec == ScenarioInit /\ [][ScenarioNext]_vars

\* ------------------------------------------------------------------------
\* C11
\* ------------------------------------------------------------------------
\* distance in metres from the bus to a stop of eta_in
EtaDistance(stop) ==
  haversine_meters(Val(EtaBus.lat), Val(EtaBus.lon), Val(stop.lat), Val(stop.lon))

\* C11 as stated: with the bus position, the speed and the weather delay
\* fixed, the nearer of two stops never gets the larger eta_sec
C11_EtaMonotone ==
  (eta_out # None /\ EtaDistance(eta_in.stop1) < EtaDistance(eta_in.stop2))
    => eta_out[1].eta_sec <= eta_out[2].eta_sec

\* C11 amended: the nearer stop never gets the larger eta_sec when both
\* stops are at least 100 m away or both are nearer than 100 m (a stop
\* under 100 m gets 120 s whatever the speed)
C11_EtaMonotoneSameBranch ==
  (/\ eta_out # None
   /\ EtaDistance(eta_in.stop1) < EtaDistance(eta_in.stop2)
   /\ \/ EtaDistance(eta_in.stop1) >= ImminentMetres
      \/ EtaDistance(eta_in.stop2) < ImminentMetres)
    => eta_out[1].eta_sec <= eta_out[2].eta_sec

C11_Witness ==
  /\ eta_out # None
  /\ ImminentMetres <= EtaDistance(eta_in.stop1)
  /\ EtaDistance(eta_in.stop1) < EtaDistance(eta_in.stop2)
  /\ eta_in.lastw # None
  /\ eta_out[1].eta_sec < eta_out[2].eta_sec
  /\ eta_out[1].eta_sec > WeatherDelay(eta_in.lastw)

\* ------------------------------------------------------------------------
\* C12
\* ------------------------------------------------------------------------
\* the words of a text: its maximal runs of characters other than spaces
RECURSIVE SplitWords(_, _)
SplitWords(s, cur) ==
  IF s = <<>> THEN (IF cur = <<>> THEN <<>> ELSE <<cur>>)
  ELSE IF IsSpace(s[1])
       THEN (IF cur = <<>> THEN <<>> ELSE <<cur>>) \o SplitWords(Tail(s), <<>>)
  ELSE SplitWords(Tail(s), Append(cur, s[1]))

\* a and b differ at most in letter case and in leading, trailing or
\* repeated whitespace
SameUpToCaseAndSpace(a, b) ==
  /\ Len(SplitWords(a, <<>>)) = Len(SplitWords(b, <<>>))
  /\ \A i \in DOMAIN SplitWords(a, <<>>) :
       /\ Len(SplitWords(a, <<>>)[i]) = Len(SplitWords(b, <<>>)[i])
       /\ \A j \in DOMAIN SplitWords(a, <<>>)[i] :
            LowerC(SplitWords(a, <<>>)[i][j]) = LowerC(SplitWords(b, <<>>)[i][j])

\* this request was answered from the response cache: ask did not run
CacheHit == pc \in {"supervise", "done"} /\ ~AskRan

\* C12: with the store connected, a request that differs from the previous
\* one only in letter case or whitespace has the same response-cache key
\* and, issued less than 60 s after the previous answer was cached, is
\* answered from the cache with the same answer object
C12_SameKeyHit ==
  (/\ served # None
   /\ redisUp
   /\ served.wait < ResponseTtlSec
   /\ pc \in {"supervise", "done"}
   /\ SameUpToCaseAndSpace(user_query, served.query))
    => /\ AskKey(user_query) = AskKey(served.query)
       /\ CacheHit
       /\ result = served.result
       /\ pc = "done" => response = served.response

C12_Witness ==
  /\ served # None
  /\ pc = "done"
  /\ user_query # served.query
  /\ SameUpToCaseAndSpace(user_query, served.query)
  /\ CacheHit
  /\ "answer" \in DOMAIN response
  /\ response = served.response

\* ------------------------------------------------------------------------
\* C13
\* ------------------------------------------------------------------------
\* the position provider, the weather provider, the fleet and route
\* registry, the retrieval index and the generative model
DataSources == {"gps", "weather", "eta", "fleet", "retrieval", "planner_llm", "composer_llm"}

\* C13: a request answered from the response cache returns the prior
\* structured answer and consults no data source while it is served
C13_HitConsultsNothing ==
  (served # None /\ CacheHit)
    => /\ result = served.result
       /\ calls \cap DataSources = {}

\* ------------------------------------------------------------------------
\* C14
\* ------------------------------------------------------------------------
\* the response-cache read for query yields no answer object: the store is
\* not connected, holds nothing under the key, holds a text json.loads
\* rejects, or holds a JSON value without an answer
ReadFails(query) ==
  \/ ~redisUp
  \/ AskKey(query) \notin DOMAIN askCache
  \/ ~askCache[AskKey(query)].ok
  \/ "answer" \notin DOMAIN askCache[AskKey(query)].value

\* C14: a failing response-cache read is a miss, after which ask runs on
\* the query as if there were no cache, and handle_query returns the
\* sanitised result of ask whether or not the cache write succeeds
C14_CacheFailureIsMiss ==
  [][/\ (pc = "idle" /\ pc' # "idle" /\ ReadFails(user_query'))
          => (pc' = "guard" /\ result' = None /\ askCache' = askCache)
     /\ pc \in {"guard", "plan", "exec"} => askCache' = askCache
     /\ pc = "finish" => (pc' = "supervise" /\ result' = FinishResult(result))]_vars

C14_Witness ==
  /\ pc = "finish"
  /\ redisUp
  /\ AskKey(user_query) \in DOMAIN askCache
  /\ ReadFails(user_query)
  /\ result.tool_results # <<>>

\* the failing write: the store is not connected and the answer is returned
C14_WitnessWrite ==
  /\ pc = "supervise"
  /\ ~redisUp
  /\ askCache = <<>>
  /\ result.tool_results # <<>>

\* ------------------------------------------------------------------------
\* C15
\* ------------------------------------------------------------------------
\* the eta the supervisor resolved from the planner result: eta_sec (or eta)
\* of the last eta entry that carries one, None when there is none
ResolvedEta(res) ==
  IF EtaEntries(res.tool_results) = {} THEN None
  ELSE EtaOf(res.tool_results[LastIndex(EtaEntries(res.tool_results))].result)

AltOpener == "As an alternative, you could consider taking bus"

GenericOpener == "Since the current ETA is more than 30 minutes, you may also consider a faster mode such as metro/rail or a cab for most of the journey, and then a short auto/taxi ride near stop"

\* where a suggestion sentence starts in an answer
SuggestionStarts(answer) == {i \in DOMAIN answer : answer[i] \in {AltOpener, GenericOpener}}

\* the registered buses other than bus on the route of bus
OthersOnRoute(bus) ==
  IF bus \notin DOMAIN Buses THEN {}
  ELSE {b \in DOMAIN Buses \ {bus} : Buses[b].route_id = Buses[bus].route_id}

RegistryIndex(b) == CHOOSE i \in DOMAIN BusOrder : BusOrder[i] = b

FirstInRegistry(S) == CHOOSE b \in S : \A c \in S : RegistryIndex(b) <= RegistryIndex(c)

\* the sentence starting at i of answer names bus b after its opener
NamesBus(answer, i, b) ==
  /\ i + 1 + Len(b) <= Len(answer)
  /\ SubSeq(answer, i + 2, i + 1 + Len(b)) = b

\* the answer opens with the eta sentence of bus and stop and closes with
\* the one suggestion sentence that fits bus
EnrichedFor(answer, bus, stop, eta_sec) ==
  /\ IsPrefix(EtaSentence(bus, stop, eta_sec), answer)
  /\ \A i \in SuggestionStarts(answer) :
       /\ i > Len(EtaSentence(bus, stop, eta_sec))
       /\ IF OthersOnRoute(bus) # {}
          THEN /\ answer[i] = AltOpener
               /\ NamesBus(answer, i, FirstInRegistry(OthersOnRoute(bus)))
               /\ ~NamesBus(answer, i, bus)
          ELSE answer[i] = GenericOpener

BusNames == DOMAIN Buses \cup {B9, Lower(B1), TheBus}

StopNames == {S1, S2, S9, TheStop}

\* C15: the supervisor's answer carries a suggestion sentence exactly when
\* the resolved eta is at least 1800 s; it then starts with the eta
\* sentence and ends with one suggestion, which names the first other bus
\* of the registry on the primary bus's route when there is one and is the
\* generic faster-transport suggestion otherwise
C15_LongEtaEnrichment ==
  (pc = "done" /\ "answer" \in DOMAIN response)
    => IF ResolvedEta(result) = None THEN SuggestionStarts(response.answer) = {}
       ELSE IF Val(ResolvedEta(result)) < 1800 THEN SuggestionStarts(response.answer) = {}
       ELSE /\ Cardinality(SuggestionStarts(response.answer)) = 1
            /\ \E bus \in BusNames, stop \in StopNames :
                 EnrichedFor(response.answer, bus, stop, Val(ResolvedEta(result)))

\* a long eta for a bus that shares its route with other buses
C15_Witness ==
  /\ pc = "done"
  /\ "answer" \in DOMAIN response
  /\ ResolvedEta(result) # None
  /\ Val(ResolvedEta(result)) >= 1800
  /\ \E i \in SuggestionStarts(response.answer) : response.answer[i] = AltOpener

\* a long eta for a bus alone on its route
C15_WitnessGeneric ==
  /\ pc = "done"
  /\ "answer" \in DOMAIN response
  /\ ResolvedEta(result) # None
  /\ Val(ResolvedEta(result)) >= 1800
  /\ \E i \in SuggestionStarts(response.answer) : response.answer[i] = GenericOpener

\* ------------------------------------------------------------------------
\* C16
\* ------------------------------------------------------------------------
\* weather comes before eta in the plan
WeatherThenEta(p) ==
  \E i, j \in DOMAIN p : i < j /\ p[i].tool = "weather" /\ p[j].tool = "eta"

\* the eta_sec values of the eta entries of a trace
EtaSecs(trace) ==
  {trace[i].result.eta_sec : i \in {k \in DOMAIN trace : /\ trace[k].step.tool = "eta"
                                                         /\ "eta_sec" \in DOMAIN trace[k].result}}

\* "Bus B1 is expected to reach stop S1 in about N minute(s)."
ScenarioSentence(n) ==
  <<"Bus", " ">> \o B1 \o <<" ", "is expected to reach stop", " ">> \o S1
    \o <<" ", "in about", " ", ToString(n), " ">>
    \o (IF n = 1 THEN <<"minute">> ELSE <<"minute", "s">>) \o <<".">>

\* C16: the request "When will B1 reach S1?", served without a generative
\* model and not refused by a guardrail, has a plan with weather before
\* eta, one eta result with a positive eta_sec and, when that eta is between
\* one minute and one hour, the answer
\* "Bus B1 is expected to reach stop S1 in about N minute(s)."
C16_Scenario ==
  (pc = "done" /\ user_query = ScenarioQuery /\ abstain = "none")
    => /\ WeatherThenEta(plan)
       /\ Cardinality(EtaSecs(result.tool_results)) = 1
       /\ \A e \in EtaSecs(result.tool_results) :
            /\ e \in Nat \ {0}
            /\ (60 <= e /\ e < 3600) => response.answer = ScenarioSentence(e \div 60)

\* ------------------------------------------------------------------------
\* The background notifier: run_background_loops and process_subscriptions
\* ------------------------------------------------------------------------
MAX_PER_CYCLE == 20

DefaultNotifyBefore == 300

\* largest number of subscriptions the store holds at the start
MaxSubs == 21

\* /subscribe and /unsubscribe requests handled while the notifier runs
MaxRequests == 1

UserId(i) == <<"user", ToString(i)>>

\* the i-th subscriber's Subscription: the third one has an empty stop_id,
\* and the thresholds, routes and channels differ
SubscriptionAt(i) ==
  [ user_id |-> UserId(i),
    bus_id |-> IF i % 4 = 0 THEN B2 ELSE B1,
    stop_id |-> IF i = 3 THEN <<>> ELSE IF i % 4 = 0 THEN S2 ELSE S1,
    notify_before_sec |-> IF i % 4 = 2 THEN 0 ELSE IF i % 4 = 0 THEN 120 ELSE 300,
    policy |-> [notify_once |-> (i % 2 = 1), delay_threshold |-> 900],
    channel |-> IF i % 4 = 0 THEN None ELSE IF i % 4 = 2 THEN <<"sms">> ELSE <<"console">> ]

\* f"{user_id}:{bus_id}:{stop_id}"
SubscriptionKey(user_id, bus_id, stop_id) == user_id \o <<":">> \o bus_id \o <<":">> \o stop_id

KeyOf(sub) == SubscriptionKey(sub.user_id, sub.bus_id, sub.stop_id)

StoreOf(n) == [i \in 1..n |-> [key |-> KeyOf(SubscriptionAt(i)), sub |-> SubscriptionAt(i)]]

\* stores of a few subscriptions, and a store of MaxSubs subscriptions that
\* all name a stop
NotifierStores ==
  {StoreOf(n) : n \in {0, 1, 3}}
    \cup {SelectSeq(StoreOf(MaxSubs + 1), LAMBDA e : e.sub.stop_id # <<>>)}

StoredKeys(store) == {store[i].key : i \in DOMAIN store}

\* a store that takes the later subscription in place of the stored one
add_subscription_mut(store, sub) ==
  Append(SelectSeq(store, LAMBDA e : e.key # KeyOf(sub)), [key |-> KeyOf(sub), sub |-> sub])

\* subscription_service.py lines 21-38: 409 and no change when the key is stored
add_subscription(store, sub) ==
  IF KeyOf(sub) \in StoredKeys(store) THEN store
  ELSE Append(store, [key |-> KeyOf(sub), sub |-> sub])

\* lines 41-50: the other entries keep their order
remove_subscription(store, key) == SelectSeq(store, LAMBDA e : e.key # key)

\* lines 52-53: a new list of the stored Subscription objects
list_subscriptions(store) == [i \in DOMAIN store |-> store[i].sub]

\* the whole list, without the slice of line 88
Batch_mut(list) == list

\* notification_agent.py lines 87-88
Batch(list) == SubSeq(list, 1, IF Len(list) < MAX_PER_CYCLE THEN Len(list) ELSE MAX_PER_CYCLE)

\* lines 102-103
Malformed(sub) == sub.user_id = <<>> \/ sub.bus_id = <<>> \/ sub.stop_id = <<>>

\* lines 96-98 and 105-108: a stored 0 is falsy and becomes the default
NotifyBefore(sub) ==
  IF sub.notify_before_sec # 0 THEN sub.notify_before_sec ELSE DefaultNotifyBefore

\* line 99
ChannelOf(sub) == IF sub.channel # None THEN sub.channel ELSE <<"console">>

\* lines 132-136
NotifyMessage(bus_id, stop_id, eta_sec) ==
  <<"Bus", " ">> \o bus_id \o <<" ", "is expected to reach stop", " ">> \o stop_id
    \o <<" ", "in about", " ">>
    \o Plural(IF eta_sec \div 60 < 1 THEN 1 ELSE eta_sec \div 60, "minute") \o <<".">>

\* ETAs engine.ask reports for a subscription
NotifierEtas == {300, 301}

NotifierEtaEntry(e) ==
  [step |-> Step("eta", [bus_id |-> B1, stop_id |-> S1]), result |-> [eta_sec |-> e, stop_id |-> S1]]

\* tool_results of engine.ask: nothing ran, an eta entry (alone, after a gps
\* entry, or before a second one), an eta entry whose result is an error, or
\* a list whose entry is not an object
NotifierTraces ==
  { <<>>,
    << [step |-> Step("eta", [bus_id |-> B1, stop_id |-> S1]),
        result |-> [error |-> <<"ETA unavailable">>]] >>,
    << [step |-> Step("gps", [bus_id |-> B1]), result |-> get_bus_status(B1)],
       NotifierEtaEntry(60) >>,
    << NotifierEtaEntry(400), NotifierEtaEntry(60) >>,
    << [nondict |-> "eta"] >> }
    \cup { << NotifierEtaEntry(e) >> : e \in NotifierEtas }

\* engine.ask raises, or returns a result
NotifierAsks == { [raises |-> TRUE] } \cup { [tool_results |-> t] : t \in NotifierTraces }

\* notify_user returns (delivered, or the failure swallowed by
\* NotificationService.notify), or raises
NotifyOutcomes == {"returns", "raises"}

\* lines 114-120: the first eta entry with an object result decides; tr.get
\* raises on an entry that is not an object
RECURSIVE ScanTrace(_)
ScanTrace(trs) ==
  IF trs = <<>> THEN [raised |-> FALSE, eta |-> None]
  ELSE IF "nondict" \in DOMAIN Head(trs) THEN [raised |-> TRUE, eta |-> None]
  ELSE IF IsEtaEntry(Head(trs)) THEN [raised |-> FALSE, eta |-> EtaOf(Head(trs).result)]
  ELSE ScanTrace(Tail(trs))

\* lines 122-139 for a scanned trace
EvaluateEta(i, sub, scan, delivery) ==
  IF scan.raised
  THEN [idx |-> i, sub |-> sub, ran |-> TRUE, eta |-> None, kind |-> "raised", delivery |-> None]
  ELSE IF scan.eta # None /\ 0 <= Val(scan.eta) /\ Val(scan.eta) <= NotifyBefore(sub)
  THEN [idx |-> i, sub |-> sub, ran |-> TRUE, eta |-> scan.eta,
        kind |-> IF delivery = "raises" THEN "raised" ELSE "notified",
        delivery |-> Some([user_id |-> sub.user_id,
                           message |-> NotifyMessage(sub.bus_id, sub.stop_id, Val(scan.eta)),
                           channel |-> ChannelOf(sub)])]
  ELSE [idx |-> i, sub |-> sub, ran |-> TRUE, eta |-> scan.eta, kind |-> "quiet", delivery |-> None]

\* lines 91-145 for the i-th subscription of the batch
Evaluation(i, sub, ask, delivery) ==
  IF Malformed(sub)
  THEN [idx |-> i, sub |-> sub, ran |-> FALSE, eta |-> None, kind |-> "skipped", delivery |-> None]
  ELSE IF "raises" \in DOMAIN ask
  THEN [idx |-> i, sub |-> sub, ran |-> TRUE, eta |-> None, kind |-> "raised", delivery |-> None]
  ELSE EvaluateEta(i, sub, ScanTrace(ask.tool_results), delivery)

NotifierInit ==
  /\ client = FALSE /\ redisUp = TRUE
  /\ weatherCache = <<>> /\ etaCache = <<>> /\ askCache = <<>>
  /\ RequestAtRest
  /\ EtaAtRest
  /\ served = None
  /\ AuthAtRest
  /\ npc = "sleep"
  /\ subscriptions \in NotifierStores
  /\ subs = <<>>
  /\ sub_idx = 1
  /\ runs = 0
  /\ sent = 0
  /\ caught = FALSE
  /\ last_eval = None
  /\ requests = 0
  /\ confirmations = 0
  /\ reply = None

\* a tick fired by a timer whatever the previous scan is doing
Tick_mut ==
  /\ subs' = Batch(list_subscriptions(subscriptions))
  /\ npc' = IF subs' = <<>> THEN "sleep" ELSE "scan"
  /\ sub_idx' = 1
  /\ runs' = 0
  /\ sent' = 0
  /\ caught' = FALSE
  /\ last_eval' = None
  /\ UNCHANGED << restVars, subscriptions, requests, confirmations, reply >>

\* supervisor_agent.py lines 157-160 and notification_agent.py lines 72-88:
\* the sleep is over and the cycle loads its batch; an empty store ends it
Tick ==
  /\ npc = "sleep"
  /\ subs' = Batch(list_subscriptions(subscriptions))
  /\ npc' = IF subs' = <<>> THEN "sleep" ELSE "scan"
  /\ sub_idx' = 1
  /\ runs' = 0
  /\ sent' = 0
  /\ caught' = FALSE
  /\ last_eval' = None
  /\ UNCHANGED << restVars, subscriptions, requests, confirmations, reply >>

\* the iteration without the try of line 91: what the evaluation raises
\* leaves process_subscriptions and ends the cycle
Evaluate_mut(ask, delivery) ==
  /\ npc = "scan"
  /\ sub_idx <= Len(subs)
  /\ last_eval' = Evaluation(sub_idx, subs[sub_idx], ask, delivery)
  /\ runs' = runs + (IF last_eval'.ran THEN 1 ELSE 0)
  /\ sent' = sent + (IF last_eval'.delivery # None THEN 1 ELSE 0)
  /\ caught' = (caught \/ last_eval'.kind = "raised")
  /\ sub_idx' = sub_idx + 1
  /\ npc' = IF last_eval'.kind = "raised" THEN "sleep" ELSE npc
  /\ UNCHANGED << restVars, subscriptions, subs, requests, confirmations, reply >>

\* the iteration, were it to drop a subscription once it has been notified
Evaluate_mut_remove(ask, delivery) ==
  /\ npc = "scan"
  /\ sub_idx <= Len(subs)
  /\ last_eval' = Evaluation(sub_idx, subs[sub_idx], ask, delivery)
  /\ runs' = runs + (IF last_eval'.ran THEN 1 ELSE 0)
  /\ sent' = sent + (IF last_eval'.delivery # None THEN 1 ELSE 0)
  /\ caught' = (caught \/ last_eval'.kind = "raised")
  /\ sub_idx' = sub_idx + 1
  /\ subscriptions' = IF last_eval'.kind = "notified"
                      THEN remove_subscription(subscriptions, KeyOf(subs[sub_idx]))
                      ELSE subscriptions
  /\ UNCHANGED << restVars, npc, subs, requests, confirmations, reply >>

\* one iteration of the loop of lines 90-145
Evaluate(ask, delivery) ==
  /\ npc = "scan"
  /\ sub_idx <= Len(subs)
  /\ last_eval' = Evaluation(sub_idx, subs[sub_idx], ask, delivery)
  /\ runs' = runs + (IF last_eval'.ran THEN 1 ELSE 0)
  /\ sent' = sent + (IF last_eval'.delivery # None THEN 1 ELSE 0)
  /\ caught' = (caught \/ last_eval'.kind = "raised")
  /\ sub_idx' = sub_idx + 1
  /\ UNCHANGED << restVars, npc, subscriptions, subs, requests,
                  confirmations, reply >>

\* the batch is exhausted: process_subscriptions returns, the health check
\* of lines 167-170 runs and the loop sleeps again
CycleEnd ==
  /\ npc = "scan"
  /\ sub_idx > Len(subs)
  /\ npc' = "sleep"
  /\ UNCHANGED << restVars, subscriptions, subs, sub_idx, runs, sent,
                  caught, last_eval, requests, confirmations, reply >>

\* agent_service_app.py lines 80-132: POST /subscribe
Subscribe(sub) ==
  /\ requests' = requests + 1
  /\ subscriptions' = add_subscription(subscriptions, sub)
  /\ confirmations' = confirmations + (IF KeyOf(sub) \in StoredKeys(subscriptions) THEN 0 ELSE 1)
  /\ reply' = IF KeyOf(sub) \in StoredKeys(subscriptions)
              THEN [op |-> "subscribe", sub |-> sub, status_code |-> 409, http |-> 409,
                    detail |-> <<"Subscription already exists">>]
              ELSE [op |-> "subscribe", sub |-> sub, status_code |-> 201, http |-> 200,
                    data |-> sub]
  /\ UNCHANGED << restVars, npc, subs, sub_idx, runs, sent, caught,
                  last_eval >>

\* agent_service_app.py lines 134-175: POST /unsubscribe
Unsubscribe(user_id, bus_id, stop_id) ==
  /\ requests' = requests + 1
  /\ subscriptions' = remove_subscription(subscriptions, SubscriptionKey(user_id, bus_id, stop_id))
  /\ reply' = IF SubscriptionKey(user_id, bus_id, stop_id) \in StoredKeys(subscriptions)
              THEN [op |-> "unsubscribe", triple |-> <<user_id, bus_id, stop_id>>,
                    status_code |-> 200, http |-> 200,
                    data |-> [message |-> <<"Unsubscribed successfully">>]]
              ELSE [op |-> "unsubscribe", triple |-> <<user_id, bus_id, stop_id>>,
                    status_code |-> 404, http |-> 404, detail |-> <<"Subscription not found">>]
  /\ UNCHANGED << restVars, npc, subs, sub_idx, runs, sent, caught,
                  last_eval, confirmations >>

\* subscribers whose requests arrive while the notifier runs
Requesters == { SubscriptionAt(1), SubscriptionAt(MaxSubs + 2) }

NotifierNext ==
  \/ Tick
  \/ npc = "scan" /\ \E ask \in NotifierAsks, delivery \in NotifyOutcomes : Evaluate(ask, delivery)
  \/ CycleEnd
  \/ requests < MaxRequests /\ \E sub \in Requesters : Subscribe(sub)
  \/ requests < MaxRequests
       /\ \E sub \in {SubscriptionAt(1)} : Unsubscribe(sub.user_id, sub.bus_id, sub.stop_id)

NotifierSpec == NotifierInit /\ [][NotifierNext]_vars

\* the event loop resumes the background task when what it awaits completes:
\* the sleep of the loop, engine.ask and the delivery of an evaluation
EvaluateSome == \E ask \in NotifierAsks, delivery \in NotifyOutcomes : Evaluate(ask, delivery)

NotifierFairSpec ==
  NotifierSpec /\ WF_vars(Tick) /\ WF_vars(EvaluateSome) /\ WF_vars(CycleEnd)

\* ------------------------------------------------------------------------
\* C17
\* ------------------------------------------------------------------------
\* the ETA of an evaluation lies in the window of the stored threshold
InWindow(eval) ==
  eval.eta # None /\ 0 <= Val(eval.eta) /\ Val(eval.eta) <= eval.sub.notify_before_sec

\* a step of the cycle that evaluated a subscription to its end
EvaluatedStep ==
  npc = "scan" /\ sub_idx' = sub_idx + 1 /\ last_eval'.kind \in {"quiet", "notified"}

\* C17: within a scan cycle, an evaluated subscription causes exactly one
\* delivery to its user when the computed ETA satisfies
\* 0 <= eta <= notify_before_sec, and no delivery otherwise.
C17_Threshold ==
  [][EvaluatedStep =>
       IF InWindow(last_eval')
       THEN sent' = sent + 1 /\ last_eval'.delivery # None
            /\ Val(last_eval'.delivery).user_id = last_eval'.sub.user_id
       ELSE sent' = sent /\ last_eval'.delivery = None]_vars

\* ------------------------------------------------------------------------
\* C18
\* ------------------------------------------------------------------------
\* the last evaluation raised and the exception was caught
JustRaised == npc = "scan" /\ last_eval # None /\ last_eval.kind = "raised"

\* the cycle has evaluated its whole batch and the loop sleeps
BatchDone == npc = "sleep" /\ sub_idx = Len(subs) + 1

\* a step of a cycle: the next subscription of the batch is evaluated, in
\* order, and the cycle ends only behind the last one
CycleInOrder ==
  /\ (npc = "scan" /\ sub_idx' # sub_idx) =>
       (sub_idx' = sub_idx + 1 /\ last_eval'.idx = sub_idx /\ last_eval'.sub = subs[sub_idx])
  /\ (npc = "scan" /\ npc' = "sleep") => (sub_idx > Len(subs) /\ sub_idx' = sub_idx)

\* an evaluation that raises leaves the cycle running on the same batch
RaiseKeepsCycle ==
  (npc = "scan" /\ sub_idx' # sub_idx /\ last_eval'.kind = "raised") =>
    (npc' = "scan" /\ subs' = subs /\ sub_idx' = sub_idx + 1)

\* C18: when the evaluation of a subscription raises, only that evaluation
\* is abandoned: the cycle stays on its batch, every later subscription of
\* the batch is still evaluated before the cycle ends, and the background
\* loop then goes on to its next tick.
C18_RaiseIsolated ==
  /\ [][CycleInOrder /\ RaiseKeepsCycle]_vars
  /\ (JustRaised ~> (BatchDone /\ caught))
  /\ ((BatchDone /\ caught) ~> ~caught)

\* an exception was caught in a cycle and a later subscription of the
\* batch has been evaluated to its end
C18_Witness ==
  /\ npc = "scan" /\ caught
  /\ last_eval # None /\ last_eval.kind = "notified" /\ last_eval.idx > 1

\* a delivery raised on the last subscription but one of a full batch
C18_WitnessDelivery ==
  /\ JustRaised /\ last_eval.eta # None
  /\ last_eval.idx = MAX_PER_CYCLE - 1

\* ------------------------------------------------------------------------
\* C19
\* ------------------------------------------------------------------------
\* C19: a scan cycle evaluates at most 20 subscriptions, and so performs at
\* most 20 pipeline runs and at most 20 deliveries, however many
\* subscriptions the store holds.
C19_AtMostTwentyPerCycle ==
  /\ Len(subs) <= MAX_PER_CYCLE
  /\ sub_idx - 1 <= MAX_PER_CYCLE
  /\ runs <= MAX_PER_CYCLE
  /\ sent <= MAX_PER_CYCLE

\* a cycle over a store of more than 20 subscriptions has ended after 20
\* evaluations, 20 pipeline runs and 20 deliveries
C19_Witness ==
  /\ Len(subscriptions) > MAX_PER_CYCLE
  /\ BatchDone
  /\ sub_idx - 1 = MAX_PER_CYCLE
  /\ runs = MAX_PER_CYCLE
  /\ sent = MAX_PER_CYCLE

\* ------------------------------------------------------------------------
\* C20
\* ------------------------------------------------------------------------
\* C20: the notifier only reads subscriptions: every step that is not a
\* subscribe or unsubscribe request leaves the stored subscriptions and
\* their fields as they were, and while no such request has been handled
\* the batch of a cycle is the head of the store as it is.
C20_NotifierOnlyReads ==
  [][/\ requests' = requests => subscriptions' = subscriptions
     /\ (requests' = 0 /\ npc' = "scan") => subs' = Batch(list_subscriptions(subscriptions'))]_vars

\* a cycle with a delivery, a skipped subscription and a caught exception
\* has ended on the store of three subscriptions
C20_Witness ==
  /\ BatchDone
  /\ requests = 0
  /\ subscriptions = StoreOf(3)
  /\ sent > 0 /\ caught /\ runs < sub_idx - 1

\* ------------------------------------------------------------------------
\* C21
\* ------------------------------------------------------------------------
\* a step in which a scan starts: a batch is loaded and the cycle's
\* position and counters start afresh
ScanStarts ==
  \/ npc = "sleep" /\ npc' = "scan"
  \/ sub_idx' < sub_idx
  \/ runs' < runs
  \/ (npc = "scan" /\ subs' # subs)

\* C21: the ticks of the background notifier are strictly sequential: a
\* scan starts only while no scan is in progress and the batch of the
\* previous scan has been evaluated to its end, and a scan in progress
\* keeps its batch.
C21_TicksSequential ==
  [][/\ ScanStarts => (npc = "sleep" /\ sub_idx = Len(subs) + 1)
     /\ (npc = "scan" /\ npc' = "scan") => subs' = subs]_vars

\* a scan of a full batch has ended with the loop asleep, where the next
\* tick starts the next scan
C21_Witness ==
  /\ npc = "sleep" /\ Len(subs) = MAX_PER_CYCLE /\ sub_idx = MAX_PER_CYCLE + 1
  /\ last_eval # None /\ last_eval.idx = MAX_PER_CYCLE

\* ------------------------------------------------------------------------
\* The subscription endpoints on their own: /subscribe and /unsubscribe
\* ------------------------------------------------------------------------
\* requests handled in a behaviour
MaxStoreRequests == 4

\* (user_id, bus_id, stop_id) of the requests; the ids of the last two
\* contain the separator of the store's key
StoreTriples ==
  { <<UserId(1), B1, S1>>, <<UserId(2), B1, S1>>, <<UserId(1), B2, S2>>,
    <<<<"u", ":", "x">>, B1, S1>>, <<<<"u">>, <<"x", ":", "B", "1">>, S1>> }

\* the Subscription bodies of /subscribe
StoreSubscriptions ==
  { [user_id |-> t[1], bus_id |-> t[2], stop_id |-> t[3], notify_before_sec |-> n,
     policy |-> [notify_once |-> FALSE, delay_threshold |-> 900],
     channel |-> <<"console">>] : t \in StoreTriples, n \in {300, 120} }

TripleOf(sub) == <<sub.user_id, sub.bus_id, sub.stop_id>>

StoredTriples(store) == {TripleOf(store[i].sub) : i \in DOMAIN store}

SubscriptionInit ==
  /\ client = FALSE /\ redisUp = FALSE
  /\ weatherCache = <<>> /\ etaCache = <<>> /\ askCache = <<>>
  /\ RequestAtRest
  /\ EtaAtRest
  /\ served = None
  /\ NotifierAtRest /\ AuthAtRest

SubscriptionNext ==
  \/ requests < MaxStoreRequests /\ \E sub \in StoreSubscriptions : Subscribe(sub)
  \/ requests < MaxStoreRequests /\ \E t \in StoreTriples : Unsubscribe(t[1], t[2], t[3])

SubscriptionSpec == SubscriptionInit /\ [][SubscriptionNext]_vars

\* ------------------------------------------------------------------------
\* C22
\* ------------------------------------------------------------------------
\* a step that handles a /subscribe request for a triple that is stored
SubscribeStored ==
  /\ requests' = requests + 1
  /\ reply'.op = "subscribe"
  /\ TripleOf(reply'.sub) \in StoredTriples(subscriptions)

\* C22: subscribing a (user_id, bus_id, stop_id) triple that is already
\* stored is rejected with 409, leaves the stored subscriptions unchanged
\* and sends no confirmation; the store never holds two subscriptions of
\* one triple.
C22_DuplicateRejected ==
  [][/\ SubscribeStored =>
          /\ reply'.status_code = 409 /\ reply'.http = 409
          /\ subscriptions' = subscriptions
          /\ confirmations' = confirmations
     /\ \A i, j \in DOMAIN subscriptions' :
          TripleOf(subscriptions'[i].sub) = TripleOf(subscriptions'[j].sub) => i = j]_vars

\* a stored triple was subscribed again with another threshold and refused
C22_Witness ==
  /\ reply # None /\ reply.op = "subscribe" /\ reply.status_code = 409
  /\ \E i \in DOMAIN subscriptions :
       /\ TripleOf(subscriptions[i].sub) = TripleOf(reply.sub)
       /\ subscriptions[i].sub.notify_before_sec # reply.sub.notify_before_sec
  /\ Len(subscriptions) > 1

\* ------------------------------------------------------------------------
\* C23
\* ------------------------------------------------------------------------
\* a step that handles an /unsubscribe request
UnsubscribeStep == requests' = requests + 1 /\ reply'.op = "unsubscribe"

\* the store without the subscription of a triple
WithoutTriple(store, triple) == SelectSeq(store, LAMBDA e : TripleOf(e.sub) # triple)

\* C23: unsubscribing a stored triple removes exactly that subscription
\* and returns 200, after which the triple can be subscribed again with
\* 201; unsubscribing a triple that is not stored returns 404
\* "Subscription not found" and leaves the store unchanged.
C23_Unsubscribe ==
  [][/\ UnsubscribeStep =>
          IF reply'.triple \in StoredTriples(subscriptions)
          THEN /\ reply'.status_code = 200 /\ reply'.http = 200
               /\ subscriptions' = WithoutTriple(subscriptions, reply'.triple)
          ELSE /\ reply'.status_code = 404 /\ reply'.http = 404
               /\ reply'.detail = <<"Subscription not found">>
               /\ subscriptions' = subscriptions
     /\ (/\ reply # None /\ reply.op = "unsubscribe" /\ reply.status_code = 200
         /\ requests' = requests + 1 /\ reply'.op = "subscribe"
         /\ TripleOf(reply'.sub) = reply.triple) =>
          (reply'.status_code = 201 /\ TripleOf(reply'.sub) \in StoredTriples(subscriptions'))]_vars

\* ------------------------------------------------------------------------
\* The auth service: /auth/signup/start and /auth/signup/verify
\* ------------------------------------------------------------------------
OTP_TTL_SECONDS == 300

\* auth requests handled in a behaviour
MaxAuthRequests == 3

\* re.fullmatch(r"[A-Za-z0-9_]{3,12}", user_id)
ValidUserId(user_id) ==
  Len(user_id) >= 3 /\ Len(user_id) <= 12 /\ \A i \in DOMAIN user_id : IsWordChar(user_id[i])

\* phone.lstrip("+")
RECURSIVE normalize_phone(_)
normalize_phone(phone) ==
  IF phone # <<>> /\ Head(phone) = "+" THEN normalize_phone(Tail(phone)) ELSE phone

\* re.fullmatch(r"\+?\d{12}", phone)
ValidPhone(phone) ==
  /\ Len(phone) \in {12, 13}
  /\ Len(phone) = 13 => Head(phone) = "+"
  /\ Len(phone) = 12 => IsDigit(Head(phone))
  /\ \A i \in 2..Len(phone) : IsDigit(phone[i])

ValidRole(role) == role \in {"admin", "user", "driver"}

\* validate_email_for_user: only users need an email with an "@"
ValidEmailFor(role, email) == role # "user" \/ (email # None /\ "@" \in Range(email))

\* lines 157-159: a driver names a bus
ValidBusFor(role, bus_id) == role # "driver" \/ Strip(bus_id) # <<>>

AuthError(status, detail) == [status |-> status, detail |-> detail]

\* lines 152-159: the first validation that fails, None when all pass
SignupInvalid(req) ==
  IF ~ValidUserId(req.user_id)
  THEN Some(AuthError(400, <<"user_id must be 3-12 characters (letters, numbers, underscore)">>))
  ELSE IF ~ValidPhone(req.phone)
  THEN Some(AuthError(400, <<"phone must be country code + 10 digits (e.g. +919876543210)">>))
  ELSE IF ~ValidRole(req.role)
  THEN Some(AuthError(400, <<"role must be one of admin/user/driver">>))
  ELSE IF ~ValidEmailFor(req.role, req.email)
  THEN Some(AuthError(400, <<"email is required for users and must be valid">>))
  ELSE IF ~ValidBusFor(req.role, req.bus_id)
  THEN Some(AuthError(400, <<"bus_id is required for driver signup">>))
  ELSE None

\* lines 176-180: the first confirmed user holding the phone or the email
RECURSIVE UserConflict(_, _, _)
UserConflict(users, phone, email) ==
  IF users = <<>> THEN None
  ELSE IF Head(users).phone = phone
  THEN Some(AuthError(409, <<"phone already registered with another user_id">>))
  ELSE IF email # None /\ Head(users).email = email
  THEN Some(AuthError(409, <<"email already registered with another user_id">>))
  ELSE UserConflict(Tail(users), phone, email)

\* the check of the pending signups without the user_id's own entry skipped
RECURSIVE PendingConflict_mut(_, _, _, _)
PendingConflict_mut(pendings, user_id, phone, email) ==
  IF pendings = <<>> THEN None
  ELSE IF Head(pendings).phone = phone
  THEN Some(AuthError(409, <<"phone already used in another pending signup">>))
  ELSE IF email # None /\ Head(pendings).email = email
  THEN Some(AuthError(409, <<"email already used in another pending signup">>))
  ELSE PendingConflict_mut(Tail(pendings), user_id, phone, email)

\* lines 183-189: the first pending signup of another user_id holding them
RECURSIVE PendingConflict(_, _, _, _)
PendingConflict(pendings, user_id, phone, email) ==
  IF pendings = <<>> THEN None
  ELSE IF Head(pendings).user_id = user_id THEN PendingConflict(Tail(pendings), user_id, phone, email)
  ELSE IF Head(pendings).phone = phone
  THEN Some(AuthError(409, <<"phone already used in another pending signup">>))
  ELSE IF email # None /\ Head(pendings).email = email
  THEN Some(AuthError(409, <<"email already used in another pending signup">>))
  ELSE PendingConflict(Tail(pendings), user_id, phone, email)

HasUser(store, user_id) == \E i \in DOMAIN store : store[i].user_id = user_id

\* dict.get(user_id)
UserOf(store, user_id) ==
  IF HasUser(store, user_id)
  THEN Some(store[CHOOSE i \in DOMAIN store : store[i].user_id = user_id])
  ELSE None

\* dict[user_id] = rec: a stored key keeps its place
PutUser(store, rec) ==
  IF HasUser(store, rec.user_id)
  THEN [i \in DOMAIN store |-> IF store[i].user_id = rec.user_id THEN rec ELSE store[i]]
  ELSE Append(store, rec)

\* dict.pop(user_id, None)
PopUser(store, user_id) == SelectSeq(store, LAMBDA e : e.user_id # user_id)

\* lines 152-189 of signup_start: the rejection, None when the signup goes on
SignupRejection(users, pendings, req) ==
  IF SignupInvalid(req) # None THEN SignupInvalid(req)
  ELSE IF HasUser(users, req.user_id) THEN Some(AuthError(409, <<"user_id already exists">>))
  ELSE IF UserConflict(users, normalize_phone(req.phone), req.email) # None
  THEN UserConflict(users, normalize_phone(req.phone), req.email)
  ELSE PendingConflict(pendings, req.user_id, normalize_phone(req.phone), req.email)

\* lines 230-240: the pending signup stored for a request
PendingOf(req, otp, ts) ==
  [ user_id |-> req.user_id,
    phone |-> normalize_phone(req.phone),
    role |-> req.role,
    name |-> Strip(req.name),
    email |-> IF req.email # None THEN Strip(req.email) ELSE None,
    bus_id |-> IF req.bus_id # None THEN Strip(req.bus_id) ELSE None,
    otp |-> otp,
    ts |-> ts ]

\* redis_setex(key, OTP_TTL_SECONDS, json.dumps(pending)) on a connected store
AuthRedisSet(store, user_id, value, at) ==
  [k \in DOMAIN store \cup {user_id} |->
     IF k = user_id THEN [json |-> value, until |-> at + OTP_TTL_SECONDS] ELSE store[k]]

\* redis_get(key) followed by json.loads: None when the store is not
\* connected or the key is absent or has expired
AuthRedisGet(store, user_id, at) ==
  IF redisUp /\ user_id \in DOMAIN store /\ at < store[user_id].until
  THEN Some(store[user_id].json)
  ELSE None

\* auth_service_app.py lines 136-290: POST /auth/signup/start
SignupStart(req, otp) ==
  /\ auth_requests' = auth_requests + 1
  /\ IF SignupRejection(USERS, PENDING_SIGNUPS, req) # None
     THEN /\ auth_reply' = [op |-> "signup_start", req |-> req,
                            status |-> Val(SignupRejection(USERS, PENDING_SIGNUPS, req)).status,
                            detail |-> Val(SignupRejection(USERS, PENDING_SIGNUPS, req)).detail]
          /\ UNCHANGED << PENDING_SIGNUPS, authRedis >>
     ELSE /\ PENDING_SIGNUPS' = PutUser(PENDING_SIGNUPS, PendingOf(req, otp, now))
          /\ authRedis' = IF redisUp
                          THEN AuthRedisSet(authRedis, req.user_id, PendingOf(req, otp, now), now)
                          ELSE authRedis
          /\ auth_reply' = [op |-> "signup_start", req |-> req, status |-> 200,
                            message |-> <<"OTP sent for signup">>]
  /\ UNCHANGED << engineVars, etaVars, served, notifierVars, USERS, PHONE_TO_USERS, SESSIONS, now >>

\* is_expired(ts, OTP_TTL_SECONDS)
is_expired(ts, ttl, at) == at - ts > ttl

\* lines 297-314: the pending signup verify works on
PendingFor(user_id) ==
  IF AuthRedisGet(authRedis, user_id, now) # None THEN AuthRedisGet(authRedis, user_id, now)
  ELSE UserOf(PENDING_SIGNUPS, user_id)

\* lines 316-333: why a verify is refused, None when it goes on
VerifyRejection(pending, otp) ==
  IF pending = None THEN Some(AuthError(400, <<"No pending signup or OTP expired">>))
  ELSE IF is_expired(Val(pending).ts, OTP_TTL_SECONDS, now)
  THEN Some(AuthError(400, <<"OTP expired">>))
  ELSE IF otp # Val(pending).otp THEN Some(AuthError(400, <<"Invalid OTP">>))
  ELSE IF Val(pending).role = "driver" /\ (Val(pending).bus_id = None \/ Strip(Val(pending).bus_id) = <<>>)
  THEN Some(AuthError(400, <<"bus_id missing for driver signup; please start again">>))
  ELSE None

\* lines 336-347: the confirmed user made of a pending signup
UserFrom(user_id, p) ==
  IF p.role = "driver"
  THEN [user_id |-> user_id, phone |-> p.phone, role |-> p.role, name |-> p.name,
        email |-> p.email, bus_id |-> Strip(p.bus_id)]
  ELSE [user_id |-> user_id, phone |-> p.phone, role |-> p.role, name |-> p.name,
        email |-> p.email]

\* PHONE_TO_USERS.setdefault(phone, set()).add(user_id)
IndexPhone(index, phone, user_id) ==
  [k \in DOMAIN index \cup {phone} |->
     IF k = phone THEN (IF phone \in DOMAIN index THEN index[phone] ELSE {}) \cup {user_id}
     ELSE index[k]]

\* auth_service_app.py lines 292-433: POST /auth/signup/verify
SignupVerify(user_id, otp) ==
  /\ auth_requests' = auth_requests + 1
  /\ IF VerifyRejection(PendingFor(user_id), otp) # None
     THEN /\ auth_reply' = [op |-> "signup_verify", user_id |-> user_id,
                            status |-> Val(VerifyRejection(PendingFor(user_id), otp)).status,
                            detail |-> Val(VerifyRejection(PendingFor(user_id), otp)).detail]
          /\ PENDING_SIGNUPS' =
               IF PendingFor(user_id) # None
                  /\ is_expired(Val(PendingFor(user_id)).ts, OTP_TTL_SECONDS, now)
               THEN PopUser(PENDING_SIGNUPS, user_id)
               ELSE PENDING_SIGNUPS
          /\ UNCHANGED << USERS, PHONE_TO_USERS, SESSIONS >>
     ELSE /\ USERS' = PutUser(USERS, UserFrom(user_id, Val(PendingFor(user_id))))
          /\ PHONE_TO_USERS' = IndexPhone(PHONE_TO_USERS, Val(PendingFor(user_id)).phone, user_id)
          /\ PENDING_SIGNUPS' = PopUser(PENDING_SIGNUPS, user_id)
          /\ SESSIONS' = Append(SESSIONS, [user_id |-> user_id,
                                           role |-> Val(PendingFor(user_id)).role, ts |-> now])
          /\ auth_reply' = [op |-> "signup_verify", user_id |-> user_id, status |-> 200,
                            session_token |-> Len(SESSIONS) + 1]
  /\ UNCHANGED << engineVars, etaVars, served, notifierVars, authRedis, now >>

\* time goes by between two requests
Wait(seconds) ==
  /\ now = 0
  /\ now' = now + seconds
  /\ UNCHANGED << engineVars, etaVars, served, notifierVars, USERS, PENDING_SIGNUPS,
                  PHONE_TO_USERS, SESSIONS, authRedis, auth_requests, auth_reply >>

\* ids, phones and emails of the signup requests
U1 == <<"u", "s", "r", "1">>

U2 == <<"u", "s", "r", "_", "2">>

PhoneDigits(d) == <<"9", "1", "9", "8", "7", "6", "5", "4", "3", "2", "1", d>>

E1 == <<"a", "@", "x.com">>

E2 == <<"b", "@", "x.com">>

SignupBody(user_id, phone, role, email, bus_id) ==
  [user_id |-> user_id, phone |-> phone, role |-> role, name |-> <<" ", "Test User">>,
   email |-> email, bus_id |-> bus_id]

\* well-formed bodies of two user ids that share phones and emails, and one
\* body for each validation
SignupBodies ==
  { SignupBody(u, <<"+">> \o PhoneDigits("0"), "user", E1, None) : u \in {U1, U2} }
    \cup { SignupBody(u, PhoneDigits("0"), "user", E2, None) : u \in {U1, U2} }
    \cup { SignupBody(u, PhoneDigits("5"), "user", E1, None) : u \in {U1, U2} }
    \cup { SignupBody(U2, PhoneDigits("5"), "user", E1 \o <<" ">>, None),
           SignupBody(U1, PhoneDigits("7"), "admin", None, None),
           SignupBody(U2, PhoneDigits("7"), "driver", None, B1),
           SignupBody(U2, PhoneDigits("0"), "driver", None, <<" ">>),
           SignupBody(<<"u", "-", "1">>, PhoneDigits("0"), "user", E1, None),
           SignupBody(U2, <<"1", "2", "3">>, "user", E1, None),
           SignupBody(U2, PhoneDigits("0"), "guest", E1, None),
           SignupBody(U2, PhoneDigits("0"), "user", <<"nomail">>, None) }

\* generate_otp: two of its values
Otps == { <<"0000">>, <<"4321">> }

AuthInit ==
  /\ client = FALSE /\ redisUp \in BOOLEAN
  /\ weatherCache = <<>> /\ etaCache = <<>> /\ askCache = <<>>
  /\ RequestAtRest
  /\ EtaAtRest
  /\ served = None
  /\ NotifierAtRest /\ AuthAtRest

AuthNext ==
  \/ auth_requests < MaxAuthRequests /\ \E req \in SignupBodies, otp \in Otps : SignupStart(req, otp)
  \/ auth_requests < MaxAuthRequests /\ \E u \in {U1, U2}, otp \in Otps : SignupVerify(u, otp)
  \/ \E seconds \in {OTP_TTL_SECONDS, OTP_TTL_SECONDS + 1} : Wait(seconds)

AuthSpec == AuthInit /\ [][AuthNext]_vars

\* ---- C24 ----
\* a phone or an email that another user_id holds, among the confirmed users
\* or among the pending signups
HeldByOther(store, req) ==
  \E i \in DOMAIN store :
    /\ store[i].user_id # req.user_id
    /\ \/ store[i].phone = normalize_phone(req.phone)
       \/ req.email # None /\ store[i].email = req.email

SignupStarted == auth_reply' # auth_reply /\ auth_reply'.op = "signup_start"

C24_WitnessConfirmed ==
  /\ auth_reply # None
  /\ auth_reply.op = "signup_start"
  /\ auth_reply.status = 409
  /\ auth_reply.detail = <<"email already registered with another user_id">>
  /\ Len(USERS) = 1

\* ---- C25 ----
PlanningStep == pc = "plan" /\ pc' # pc

MaxPlanWords == 3

PlanVocab ==
  { <<"W", "h", "e", "n">>,
    <<"w", "e", "a", "t", "h", "e", "r">>,
    <<"R", "a", "i", "n", "y">>,
    <<"w", "h", "e", "r", "e">>,
    <<"s", "t", "a", "t", "u", "s", "?">>,
    <<"t", "r", "a", "n", "s", "l", "a", "t", "e">>,
    <<"B", "1", "?">>,
    <<"b", "2">>,
    <<"r", "7">>,
    <<"a", "b", "1">> }

PlanQueries ==
  {<<>>} \cup {JoinWords(ws) : ws \in UNION {[1..n -> PlanVocab] : n \in 1..MaxPlanWords}}

\* ask has reached its planning step for some query
\* f"ETA for Bus {bus_id} to reach stop {stop_id}?"
NotifierQuery(bus_id, stop_id) ==
  <<"E", "T", "A", " ", "f", "o", "r", " ", "B", "u", "s", " ">> \o bus_id
    \o <<" ", "t", "o", " ", "r", "e", "a", "c", "h", " ", "s", "t", "o", "p", " ">>
    \o stop_id \o <<"?">>

\* the queries the notifier synthesizes for its subscriptions
SubscriptionQueries == { NotifierQuery(b, s) : b \in {B1, B2}, s \in {S1, S2} }

PlanInit ==
  /\ client \in BOOLEAN
  /\ redisUp = FALSE
  /\ weatherCache = <<>> /\ etaCache = <<>> /\ askCache = <<>>
  /\ pc = "plan"
  /\ user_query \in PlanQueries \cup SubscriptionQueries
  /\ abstain = "none"
  /\ checks = <<>>
  /\ context = <<>>
  /\ plan = <<>>
  /\ idx = 1
  /\ tool_results = <<>>
  /\ last_bus_loc = None
  /\ last_weather = None
  /\ calls = {}
  /\ hows = <<>>
  /\ plannerOut = None
  /\ result = None
  /\ response = None
  /\ EtaAtRest
  /\ served = None
  /\ NotifierAtRest /\ AuthAtRest

PlanNext == pc = "plan" /\ UNCHANGED auxVars /\ \E o \in PlannerOutcomes : AskPlan(o)

PlanSpec == PlanInit /\ [][PlanNext]_vars

\* ---- C26 ----
HasKeyword(query, keywords) == \E k \in keywords : Contains(Lower(query), k)

\* the steps the arrival rule, the weather rule and the position rule add
EtaRuleLen(query) == IF HasKeyword(query, EtaKeywords) THEN 2 ELSE 0

WeatherRuleLen(query) ==
  IF ~HasKeyword(query, WeatherKeywords) THEN 0
  ELSE IF extract_bus_id(query) # None THEN 2 ELSE 1

PositionRuleLen(query) ==
  IF HasKeyword(query, LocationKeywords) \/ extract_bus_id(query) # None THEN 1 ELSE 0

RulesLen(query) == EtaRuleLen(query) + WeatherRuleLen(query) + PositionRuleLen(query)

RouteIdOf(query) ==
  IF IdSearch(query, RoutePrefix) = None THEN None ELSE Upper(IdSearch(query, RoutePrefix))

DeterministicPlan == pc = "exec" /\ plannerOut = None

\* C26: the deterministic plan is the steps of three rules, each applied on
\* its own and in this order: weather without parameters then eta for the
\* extracted bus id and stop S1 when the query has an arrival keyword; then,
\* when it has a weather keyword, position then weather if a bus id is
\* known, else weather for the route id if one is known, else bare weather;
\* then position for the bus id when it has a location keyword or a bus id.
C26_ThreeRules ==
  DeterministicPlan =>
    /\ Len(plan) = IF RulesLen(user_query) = 0 THEN 1 ELSE RulesLen(user_query)
    /\ RulesLen(user_query) = 0 => plan = << Step("none", EmptyDict) >>
    /\ EtaRuleLen(user_query) = 2 =>
         /\ plan[1] = Step("weather", EmptyDict)
         /\ plan[2] = Step("eta", [bus_id |-> extract_bus_id(user_query), stop_id |-> S1])
    /\ WeatherRuleLen(user_query) = 2 =>
         /\ plan[EtaRuleLen(user_query) + 1] = Step("gps", [bus_id |-> extract_bus_id(user_query)])
         /\ plan[EtaRuleLen(user_query) + 2] = Step("weather", EmptyDict)
    /\ WeatherRuleLen(user_query) = 1 =>
         plan[EtaRuleLen(user_query) + 1] =
           IF RouteIdOf(user_query) # None
           THEN Step("weather", [route_id |-> RouteIdOf(user_query)])
           ELSE Step("weather", EmptyDict)
    /\ PositionRuleLen(user_query) = 1 =>
         plan[Len(plan)] = Step("gps", [bus_id |-> extract_bus_id(user_query)])

\* all three rules fired for one query: five steps
C26_Witness ==
  /\ DeterministicPlan
  /\ Len(plan) = 5
  /\ plan[2].tool = "eta"
  /\ plan[3].tool = "gps"
  /\ plan[5].tool = "gps"

\* the weather rule on a route id, followed by the position rule on a
\* location keyword with no bus id
C26_WitnessRoute ==
  /\ DeterministicPlan
  /\ Len(plan) = 2
  /\ plan[1] = Step("weather", [route_id |-> <<"R", "7">>])
  /\ plan[2] = Step("gps", [bus_id |-> None])

\* ---- C27 ----
\* the step of the plan that runs now, and what it leaves in the trace
StepRuns(tool) ==
  /\ pc = "exec" /\ pc' = "exec"
  /\ idx <= Len(plan) /\ idx' = idx + 1
  /\ IsDictStep(plan[idx])
  /\ plan[idx].tool = tool

StepHow == hows'[Len(hows')].how

StepResult == tool_results'[Len(tool_results')].result

\* a weather step on a reachable store that found no cached value and got one
\* from the provider
WeatherMiss ==
  /\ StepRuns("weather")
  /\ redisUp
  /\ StepHow = "weather"
  /\ "error" \notin DOMAIN StepResult

WeatherKeyOfStep ==
  WeatherKey(Val(WeatherCoords(plan[idx].params, last_bus_loc).lat),
             Val(WeatherCoords(plan[idx].params, last_bus_loc).lon))

\* C27: on a weather cache miss the provider's result is stored under the key
\* of the coordinates rounded to three decimals, so that a later weather step
\* with that key finds it.
C27_WeatherStored ==
  [][ WeatherMiss =>
        /\ WeatherKeyOfStep \in DOMAIN weatherCache'
        /\ weatherCache'[WeatherKeyOfStep] = [ok |-> TRUE, value |-> StepResult] ]_vars

\* ---- C28 ----
\* an eta step on a reachable store that computed an ETA from coordinates
EtaComputed ==
  /\ StepRuns("eta")
  /\ redisUp
  /\ StepHow = "computed"

EtaKeyOfStep == EtaKey(EtaBusId(plan[idx].params, user_query), EtaStopId(plan[idx].params))

\* C28: after an eta step computed a non-fallback ETA, the result is stored in
\* the ETA cache under the key of the bus and the stop, so that a later eta
\* step for them finds it.
C28_EtaStored ==
  [][ EtaComputed =>
        /\ EtaKeyOfStep \in DOMAIN etaCache'
        /\ etaCache'[EtaKeyOfStep] = [ok |-> TRUE, value |-> StepResult] ]_vars

\* ------------------------------------------------------------------------
\* The eta step on an empty ETA cache, for every bus, stop, context and
\* last known position
\* ------------------------------------------------------------------------
ResolveBuses == {None, B1, B2, B3, B4, B9}

ResolveStops == {S1, S2, S9}

\* retrieved context: nothing, the first documents, one that names no stop
ResolveContexts == { <<>>, retrieve_context(FAISS_K), << Docs[1], Docs[4] >> }

\* last_bus_loc: no position step ran, one recorded a position, one failed
ResolveLocs(bus_id) ==
  { None,
    [bus_id |-> bus_id, lat |-> Some(225700), lon |-> Some(883600), speed_kmph |-> Some(25)],
    [error |-> <<"No GPS data for bus">>] }

ResolveLives(bus_id) == IF bus_id = None THEN {None} ELSE GpsOutcomes(bus_id) \cup {None}

ResolveInputs ==
  UNION { [bus_id : {b}, stop_id : ResolveStops, context : ResolveContexts,
           loc : ResolveLocs(b), lastw : {None, [condition |-> "Rain", expected_delay_sec |-> 300]},
           live : ResolveLives(b)] : b \in ResolveBuses }

ResolveInit ==
  /\ client = FALSE /\ redisUp = TRUE
  /\ weatherCache = <<>> /\ etaCache = <<>> /\ askCache = <<>>
  /\ RequestAtRest
  /\ eta_in \in ResolveInputs /\ eta_out = None
  /\ served = None
  /\ NotifierAtRest /\ AuthAtRest

\* lines 404-518 on eta_in
ResolveStep ==
  /\ eta_in # None
  /\ eta_out = None
  /\ eta_out' = EtaStepFor(eta_in.bus_id, eta_in.stop_id, eta_in.context, eta_in.loc,
                           eta_in.lastw, redisUp, etaCache, eta_in.live)
  /\ etaCache' = EtaStepFor(eta_in.bus_id, eta_in.stop_id, eta_in.context, eta_in.loc,
                            eta_in.lastw, redisUp, etaCache, eta_in.live).store
  /\ UNCHANGED << pc, client, redisUp, weatherCache, askCache, user_query, abstain, checks,
                  context, plan, idx, tool_results, last_bus_loc, last_weather, calls, hows,
                  plannerOut, result, response, eta_in, served, notifierVars, authVars >>

ResolveNext == ResolveStep

ResolveSpec == ResolveInit /\ [][ResolveNext]_vars

\* ---- C29 ----
\* (a) the stop on the route the registry gives for the bus; no coordinates
\* when the bus, its route or the stop is not there
ResolverRegistry(bus_id, stop_id) ==
  IF BusRouteId(bus_id) = None \/ get_route(BusRouteId(bus_id)) = None THEN NoCoords
  ELSE RouteStop(get_route(BusRouteId(bus_id)), stop_id)

\* the first of the three resolvers that yields coordinates, None when none does
FirstResolved(bus_id, stop_id, ctx) ==
  IF ResolverRegistry(bus_id, stop_id).lat # None THEN ResolverRegistry(bus_id, stop_id)
  ELSE IF find_stop_coords(stop_id) # None THEN find_stop_coords(stop_id)
  ELSE ContextStop(ctx, stop_id)

\* the bus has a position: from the last position step or from a new lookup
BusPositionKnown(in) ==
  /\ in.bus_id # None
  /\ BusCoords(in.bus_id, in.loc, in.live).lat # None
  /\ BusCoords(in.bus_id, in.loc, in.live).lon # None

EtaStepDone == eta_out # None /\ "result" \in DOMAIN eta_out /\ ~eta_out.hit

\* C29: on an ETA cache miss the stop's coordinates are those of the first
\* resolver that yields some, in the order registry via the bus's route, raw
\* route table, context document naming the stop; the 1200 s fallback is
\* returned only when none of the three yields coordinates or the bus has no
\* position.
C29_ResolverChain ==
  EtaStepDone =>
    /\ "fallback" \in DOMAIN eta_out.result =>
         \/ FirstResolved(eta_in.bus_id, eta_in.stop_id, eta_in.context) = None
         \/ ~BusPositionKnown(eta_in)
    /\ "fallback" \notin DOMAIN eta_out.result =>
         /\ FirstResolved(eta_in.bus_id, eta_in.stop_id, eta_in.context) # None
         /\ eta_out.result.stop =
              [lat |-> FirstResolved(eta_in.bus_id, eta_in.stop_id, eta_in.context).lat,
               lon |-> FirstResolved(eta_in.bus_id, eta_in.stop_id, eta_in.context).lon]

\* the same statement for the buses whose route the registry knows
C29_ChainOnKnownRoutes ==
  EtaStepDone /\ ~(BusRouteId(eta_in.bus_id) # None /\ get_route(BusRouteId(eta_in.bus_id)) = None)
    => /\ "fallback" \in DOMAIN eta_out.result =>
            \/ FirstResolved(eta_in.bus_id, eta_in.stop_id, eta_in.context) = None
            \/ ~BusPositionKnown(eta_in)
       /\ "fallback" \notin DOMAIN eta_out.result =>
            /\ FirstResolved(eta_in.bus_id, eta_in.stop_id, eta_in.context) # None
            /\ eta_out.result.stop =
                 [lat |-> FirstResolved(eta_in.bus_id, eta_in.stop_id, eta_in.context).lat,
                  lon |-> FirstResolved(eta_in.bus_id, eta_in.stop_id, eta_in.context).lon]

\* a stop found only in a context document
C29_WitnessContext ==
  /\ EtaStepDone
  /\ "fallback" \notin DOMAIN eta_out.result
  /\ eta_out.diag.path = "context"

\* ---- C30 ----
\* C30: when the distance between the bus and the stop is under 100 metres,
\* the eta_sec of the eta step is 120 seconds, whatever the speed.
C30_ImminentIs120 ==
  (eta_out # None /\ EtaDistance(eta_in.stop1) < ImminentMetres)
    => eta_out[1].eta_sec = ImminentEtaSec

\* what the step gives under 100 metres: 120 seconds and the delay of the
\* last weather, whatever the speed
C30_ImminentPlusDelay ==
  (eta_out # None /\ EtaDistance(eta_in.stop1) < ImminentMetres)
    => eta_out[1].eta_sec = ImminentEtaSec + WeatherDelay(eta_in.lastw)

\* ------------------------------------------------------------------------
\* handle_user_query on results of ask whose trace has one or two eta entries
\* ------------------------------------------------------------------------
AnswerEtas == {60, 1799, 1800, 7300}

AnswerEtaEntries ==
  { [step |-> Step("eta", [bus_id |-> b[1], stop_id |-> b[2]]),
     result |-> [eta_sec |-> e, stop_id |-> b[2]]] :
      b \in { <<B1, S1>>, <<B2, S2>> }, e \in AnswerEtas }

AnswerTraces ==
  { << tr >> : tr \in AnswerEtaEntries }
    \cup { << tr1, tr2 >> : tr1 \in AnswerEtaEntries, tr2 \in AnswerEtaEntries }

\* what ask returns for a trace without a generative model (lines 548-578)
AnswerResults ==
  { [answer |-> DetCompose(t), tool_results |-> t, context |-> <<>>] : t \in AnswerTraces }

AnswerNext ==
  \/ \E r \in AnswerResults : PlannerReturns(r)
  \/ SupervisorReturn /\ UNCHANGED auxVars

AnswerSpec == SupervisorInit /\ [][AnswerNext]_vars

\* ---- C31 ----
\* the eta entries of a trace that carry a numeric ETA
NumericEtas(trace) ==
  {i \in DOMAIN trace : IsEtaEntry(trace[i]) /\ EtaOf(trace[i].result) # None}

FirstNumericEta(trace) == trace[FirstIndex(NumericEtas(trace))]

Answered == pc = "done" /\ response # None /\ "answer" \in DOMAIN response

\* C31: the ETA sentence of the final answer (bus, stop and duration) and the
\* long-ETA decision are those of the first eta entry of the trace with a
\* numeric ETA; without such an entry the answer is the no-information
\* sentence.
C31_FirstEtaDecides ==
  Answered =>
    IF NumericEtas(result.tool_results) = {}
    THEN response.answer = MsgNoInfo
    ELSE /\ IsPrefix(NormSpace(EtaSentence(FirstNumericEta(result.tool_results).step.params.bus_id,
                                           FirstNumericEta(result.tool_results).step.params.stop_id,
                                           Val(EtaOf(FirstNumericEta(result.tool_results).result)))),
                     response.answer)
         /\ "fleet" \in calls
              <=> Val(EtaOf(FirstNumericEta(result.tool_results).result)) >= LongEtaSec

\* the same statement on the traces with at most one numeric ETA
C31_SingleEtaDecides ==
  Answered /\ Cardinality(NumericEtas(result.tool_results)) <= 1 =>
    IF NumericEtas(result.tool_results) = {}
    THEN response.answer = MsgNoInfo
    ELSE /\ IsPrefix(NormSpace(EtaSentence(FirstNumericEta(result.tool_results).step.params.bus_id,
                                           FirstNumericEta(result.tool_results).step.params.stop_id,
                                           Val(EtaOf(FirstNumericEta(result.tool_results).result)))),
                     response.answer)
         /\ "fleet" \in calls
              <=> Val(EtaOf(FirstNumericEta(result.tool_results).result)) >= LongEtaSec

\* ---- C32 ----
\* an evaluation whose query was answered
EvaluationAnswered ==
  /\ last_eval' # last_eval
  /\ last_eval'.ran
  /\ last_eval'.kind # "raised"

\* C32: with the store connected, an evaluation whose query found no entry in
\* the response cache leaves the freshly computed answer there, under the
\* key of the normalised query.
C32_EvaluationCached ==
  [][ EvaluationAnswered /\ redisUp =>
        AskKey(NotifierQuery(last_eval'.sub.bus_id, last_eval'.sub.stop_id)) \in DOMAIN askCache' ]_vars

\* ---- C33 ----
\* a position step for a bus the position service has no data for
PositionStepFails ==
  /\ StepRuns("gps")
  /\ "error" \in DOMAIN StepResult
  /\ StepResult.error # ErrNoBusId

\* the last known position is that of a successful position step
PositionKnown(loc) == loc # None /\ "lat" \in DOMAIN loc

\* C33: a position step that fails for lack of data leaves the position
\* recorded by an earlier successful position step where it was.
C33_FailedStepKeepsPosition ==
  [][ PositionStepFails /\ PositionKnown(last_bus_loc) => last_bus_loc' = last_bus_loc ]_vars

\* ---- C34 ----
EtaStepsOf(p) == { i \in 1..Len(p) : IsDictStep(p[i]) /\ p[i].tool = "eta" }

\* C34: the eta steps of the deterministic plan for the query synthesized for
\* a subscription (bus, stop) target the stop of that subscription.
C34_EtaTargetsSubscriptionStop ==
  \A b \in {B1, B2}, s \in {S1, S2} :
    DeterministicPlan /\ user_query = NotifierQuery(b, s) =>
      /\ EtaStepsOf(plan) # {}
      /\ \A i \in EtaStepsOf(plan) : EtaStopId(plan[i].params) = s

\* the same for the subscriptions to stop S1
C34_EtaTargetsS1 ==
  \A b \in {B1, B2} :
    DeterministicPlan /\ user_query = NotifierQuery(b, S1) =>
      /\ EtaStepsOf(plan) # {}
      /\ \A i \in EtaStepsOf(plan) :
           EtaStopId(plan[i].params) = S1 /\ EtaBusId(plan[i].params, user_query) = b

\* ---- C35 ----
\* the last request answered was the successful unsubscribe of sub
UnsubscribedLast(sub) ==
  /\ reply # None
  /\ reply.op = "unsubscribe"
  /\ reply.status_code = 200
  /\ reply.triple = << sub.user_id, sub.bus_id, sub.stop_id >>

\* a step of the cycle that delivers the notification of sub
Notifies(sub) ==
  /\ npc = "scan"
  /\ sub_idx' = sub_idx + 1
  /\ last_eval'.sub = sub
  /\ last_eval'.kind = "notified"

\* C35: no notification is delivered for a subscription whose unsubscribe
\* has returned success, also when the scan cycle that had loaded it is
\* still running.
C35_NoNotificationAfterUnsubscribe ==
  [][ \A i \in 1..Len(subs) : UnsubscribedLast(subs[i]) => ~Notifies(subs[i]) ]_vars

\* ---- C36 ----
\* some cycle has just evaluated sub
EvaluatedNow(sub) == last_eval # None /\ last_eval.sub = sub

\* C36: a subscription that stays in the store is eventually evaluated by a
\* scan cycle, be it among the first 20 of the store or behind them.
C36_NoStarvation ==
  \A i \in {1, MaxSubs + 1} :
    <>( KeyOf(SubscriptionAt(i)) \notin StoredKeys(subscriptions) \/ EvaluatedNow(SubscriptionAt(i)) )

\* the same for the subscriptions among the first 20 of the store
C36_FirstTwentyEvaluated ==
  \A i \in {1, MAX_PER_CYCLE} :
    <>( \/ \A k \in 1..MAX_PER_CYCLE : k \in DOMAIN subscriptions => subscriptions[k].key # KeyOf(SubscriptionAt(i))
        \/ EvaluatedNow(SubscriptionAt(i)) )

\* ---- C37 ----
\* the notification of sub has just been delivered
JustNotified(sub) == last_eval # None /\ last_eval.sub = sub /\ last_eval.kind = "notified"

\* a cycle has just loaded its batch
CycleLoaded == npc = "scan" /\ sub_idx = 1 /\ last_eval = None

\* C37: a subscription whose policy has notify_once set is notified at most
\* once: after its notification, no cycle loaded later delivers another one.
C37_NotifyOnce ==
  \A i \in {1, MAX_PER_CYCLE - 1} :
    SubscriptionAt(i).policy.notify_once =>
      [](JustNotified(SubscriptionAt(i)) =>
           [](CycleLoaded => []~JustNotified(SubscriptionAt(i))))

\* ---- C38 ----
\* the step takes the position of the bus from last_bus_loc
NeedsPosition(step) ==
  \/ step.tool = "eta"
  \/ step.tool = "weather" /\ (Get(step.params, "lat") = None \/ Get(step.params, "lon") = None)

\* C38: in the deterministic plan of a query with a bus id, every eta step
\* and every weather step without coordinates of its own comes after a
\* position step for that bus.
C38_PositionFirst ==
  (DeterministicPlan /\ extract_bus_id(user_query) # None) =>
    \A i \in 1..Len(plan) :
      NeedsPosition(plan[i]) =>
        \E j \in 1..(i - 1) : plan[j] = Step("gps", [bus_id |-> extract_bus_id(user_query)])

\* the same for the steps of the weather rule
C38_PositionBeforeWeatherRule ==
  (DeterministicPlan /\ extract_bus_id(user_query) # None /\ WeatherRuleLen(user_query) = 2) =>
    /\ plan[EtaRuleLen(user_query) + 1] = Step("gps", [bus_id |-> extract_bus_id(user_query)])
    /\ NeedsPosition(plan[EtaRuleLen(user_query) + 2])

\* ---- C39 ----
\* the bus of the position step that runs
GpsBusId == Or(Get(plan[idx].params, "bus_id"), extract_bus_id(user_query))

\* C39: the letter case of a bus identifier makes no difference: the position
\* step of a query fails exactly when the position step of the query that
\* spells the identifier in upper case fails, and its result names the same
\* bus.
C39_BusCaseIgnored ==
  [][ (StepRuns("gps") /\ plannerOut = None /\ GpsBusId # None) =>
        /\ ("error" \in DOMAIN StepResult) <=> (GpsOutcomes(Upper(GpsBusId)) = {None})
        /\ ("error" \notin DOMAIN StepResult) => StepResult.bus_id = Upper(GpsBusId) ]_vars

\* the same for the identifiers spelled in upper case
C39_UpperCaseBus ==
  [][ (StepRuns("gps") /\ plannerOut = None /\ GpsBusId # None /\ GpsBusId = Upper(GpsBusId)) =>
        /\ ("error" \in DOMAIN StepResult) <=> (GpsOutcomes(GpsBusId) = {None})
        /\ ("error" \notin DOMAIN StepResult) => StepResult.bus_id = GpsBusId ]_vars

\* the guardrail on referenced entities does not see the letter case
C39_GuardrailCaseIgnored ==
  pc # "idle" => validate_referenced_entities(user_query) = validate_referenced_entities(Upper(user_query))

\* ---- C40 ----
\* a step in which a signup verify succeeds
VerifySucceeds ==
  /\ auth_requests' = auth_requests + 1
  /\ auth_reply'.op = "signup_verify"
  /\ auth_reply'.status = 200

\* a verify has succeeded for the user before: only a verify writes USERS, and
\* no signup is started for a user id that USERS holds
VerifiedBefore(user_id) == HasUser(USERS, user_id)

\* C40: an OTP is used successfully at most once: once a verify has succeeded
\* for a user, no further verify for that user succeeds and no further
\* session is created for it, with the pending entry in Redis or in memory.
C40_OtpSingleUse ==
  [][ /\ VerifySucceeds => ~VerifiedBefore(auth_reply'.user_id)
      /\ (auth_requests' = auth_requests + 1 /\ auth_reply'.op = "signup_verify"
            /\ VerifiedBefore(auth_reply'.user_id))
           => SESSIONS' = SESSIONS ]_vars

\* the same when the pending entries are kept in memory only
C40_OtpSingleUseInMemory ==
  [][ ~redisUp =>
        /\ VerifySucceeds => ~VerifiedBefore(auth_reply'.user_id)
        /\ (auth_requests' = auth_requests + 1 /\ auth_reply'.op = "signup_verify"
              /\ VerifiedBefore(auth_reply'.user_id))
             => (SESSIONS' = SESSIONS /\ auth_reply'.status = 400) ]_vars
====
